---- MODULE Spec2Model ----
(***************************************************************************)
(* A model of waddlemap-db's vector store: the sharded append-only log     *)
(* (storage.Manager), the per-collection indexes (Collection, HNSWWrapper, *)
(* InvertedIndex, ForwardIndex), the write-ahead log (WAL), the top-level  *)
(* VectorManager with its open / close / crash life cycle, and the request *)
(* dispatcher (transaction.Manager) with the connection handler that feeds *)
(* it.                                                                     *)
(*                                                                         *)
(* Go maps are functions with a finite domain, Go slices are sequences.    *)
(* Vectors are sequences of small integers, so the L2 and inner-product    *)
(* distances are exact integers.  File offsets of the shard log are the    *)
(* positions of the records in the file.                                   *)
(***************************************************************************)
EXTENDS Integers, Sequences, FiniteSets, TLC

\* ------------------------------------------------------------------------
\* Bounds of the model
\* ------------------------------------------------------------------------

\* Mutating client calls (AppendBlock, DeleteKey) per behaviour.
MaxOps == 3

\* Times the process is closed or crashes per behaviour.
MaxRestarts == 2

\* Goroutines that call AppendBlock at the same time.
NumThreads == 2

\* Connections, and requests a client sends on one connection.
NumHandlers == 2

MaxRequests == 2

\* Largest top_k of the search calls.
MaxTopK == 2

\* Appends and deletes before and between the searches.
MaxSearchOps == 2

\* ------------------------------------------------------------------------
\* Program constants
\* ------------------------------------------------------------------------

PartitionCount == 16

M == 16

EfConstruction == 200

EfSearch == 100

\* ------------------------------------------------------------------------
\* Go maps and slices
\* ------------------------------------------------------------------------

EmptyMap == [x \in {} |-> 0]

Has(m, k) == k \in DOMAIN m

Put(m, k, v) == [x \in (DOMAIN m) \cup {k} |-> IF x = k THEN v ELSE m[x]]

Del(m, k) == [x \in (DOMAIN m) \ {k} |-> m[x]]

Min2(a, b) == IF a < b THEN a ELSE b

Max2(a, b) == IF a > b THEN a ELSE b

Range(s) == {s[i] : i \in DOMAIN s}

Take(s, n) == SubSeq(s, 1, Min2(n, Len(s)))

\* The least k with 2^k > n.
RECURSIVE Log2Above(_)
Log2Above(n) == IF n < 1 THEN 0 ELSE 1 + Log2Above(n \div 2)

\* ------------------------------------------------------------------------
\* container/heap over []candidate, as candidateHeap and maxCandidateHeap
\* use it.  A heap is a sequence; position i of the Go slice is h[i + 1].
\* ------------------------------------------------------------------------

\* candidateHeap.Less / maxCandidateHeap.Less on slice positions i, j.
HeapLess(h, isMax, i, j) ==
    IF isMax THEN h[i + 1].Distance > h[j + 1].Distance
             ELSE h[i + 1].Distance < h[j + 1].Distance

HeapSwap(h, i, j) ==
    [h EXCEPT ![i + 1] = h[j + 1], ![j + 1] = h[i + 1]]

RECURSIVE HeapUp(_, _, _)
HeapUp(h, isMax, j) ==
    LET i == IF j = 0 THEN 0 ELSE (j - 1) \div 2
    IN  IF i = j \/ ~HeapLess(h, isMax, j, i)
        THEN h
        ELSE HeapUp(HeapSwap(h, i, j), isMax, i)

RECURSIVE HeapDown(_, _, _, _)
HeapDown(h, isMax, i, n) ==
    LET j1 == 2 * i + 1
        j2 == j1 + 1
        j  == IF j2 < n /\ HeapLess(h, isMax, j2, j1) THEN j2 ELSE j1
    IN  IF j1 >= n
        THEN h
        ELSE IF ~HeapLess(h, isMax, j, i)
             THEN h
             ELSE HeapDown(HeapSwap(h, i, j), isMax, j, n)

HeapPush(h, isMax, x) == HeapUp(Append(h, x), isMax, Len(h))

\* heap.Pop: the root is swapped to the end, the rest is sifted down, and the
\* last element is removed and returned.
HeapPop(h, isMax) ==
    LET n == Len(h) - 1
        d == HeapDown(HeapSwap(h, 0, n), isMax, 0, n)
    IN  [item |-> d[n + 1], heap |-> SubSeq(d, 1, n)]

\* ------------------------------------------------------------------------
\* HNSWWrapper
\* ------------------------------------------------------------------------

Metrics == {"l2", "cosine", "ip"}

RECURSIVE SumSq(_, _, _)
SumSq(a, b, i) ==
    IF i > Len(a) THEN 0
    ELSE (a[i] - b[i]) * (a[i] - b[i]) + SumSq(a, b, i + 1)

RECURSIVE Dot(_, _, _)
Dot(a, b, i) ==
    IF i > Len(a) THEN 0 ELSE a[i] * b[i] + Dot(a, b, i + 1)

distanceL2(a, b) == SumSq(a, b, 1)

distanceIP(a, b) == 0 - Dot(a, b, 1)

\* The cosine metric needs a square root and is not used by the collections
\* of the model: every collection is created with "l2" or "ip".
distance(hw, a, b) ==
    IF hw.metric = "ip" THEN distanceIP(a, b) ELSE distanceL2(a, b)

NewHNSWWrapper(dims, metric) ==
    [nodes |-> EmptyMap, entryPoint |-> 0, hasEntry |-> FALSE,
     dimensions |-> dims, metric |-> metric, MaxLevel |-> 0]

\* The body of the loop over node.Neighbors[level] inside searchLayer, for
\* the neighbor nid.  st holds the two heaps and the visited set.
searchLayerNeighbor(hw, query, ef, st, nid) ==
    IF nid \in st.visited THEN st
    ELSE LET st1 == [st EXCEPT !.visited = @ \cup {nid}] IN
         IF ~Has(hw.nodes, nid) THEN st1
         ELSE LET dist == distance(hw, query, hw.nodes[nid].Vector)
                  c    == [ID |-> nid, Distance |-> dist]
              IN  IF Len(st1.results) < ef \/ dist < st1.results[1].Distance
                  THEN LET cs == HeapPush(st1.candidates, FALSE, c)
                           rs == HeapPush(st1.results, TRUE, c)
                           rp == IF Len(rs) > ef THEN HeapPop(rs, TRUE).heap ELSE rs
                       IN  [st1 EXCEPT !.candidates = cs, !.results = rp]
                  ELSE st1

\* The loop over node.Neighbors[level] inside searchLayer: the neighbors
\* nbrs[lo..hi] in list order, the first half and then the second.  The
\* loop runs only inside a turn of the outer loop, where st.done is FALSE;
\* reading it first has st evaluated before the neighbors are visited.
RECURSIVE searchLayerVisit(_, _, _, _, _, _, _)
searchLayerVisit(hw, query, ef, st, nbrs, lo, hi) ==
    IF st.done \/ lo > hi THEN st
    ELSE IF lo = hi THEN searchLayerNeighbor(hw, query, ef, st, nbrs[lo])
    ELSE LET mid == (lo + hi) \div 2
         IN  searchLayerVisit(hw, query, ef,
                 searchLayerVisit(hw, query, ef, st, nbrs, lo, mid),
                 nbrs, mid + 1, hi)

\* One turn of the loop "for candidates.Len() > 0" of searchLayer; st.done
\* is set when the loop has ended, and a later turn changes nothing.
searchLayerTurn(hw, query, ef, level, st) ==
    IF st.done THEN st
    ELSE IF Len(st.candidates) = 0 THEN [st EXCEPT !.done = TRUE]
    ELSE LET p       == HeapPop(st.candidates, FALSE)
             current == p.item
             st1     == [st EXCEPT !.candidates = p.heap]
         IN  IF Len(st1.results) > 0
                /\ current.Distance > st1.results[1].Distance
                /\ Len(st1.results) >= ef
             THEN [st1 EXCEPT !.done = TRUE]
             ELSE IF ~Has(hw.nodes, current.ID)
                     \/ level >= Len(hw.nodes[current.ID].Neighbors)
                  THEN st1
                  ELSE searchLayerVisit(hw, query, ef, st1,
                           hw.nodes[current.ID].Neighbors[level + 1], 1,
                           Len(hw.nodes[current.ID].Neighbors[level + 1]))

\* 2^k turns of the loop.
RECURSIVE searchLayerTurns(_, _, _, _, _, _)
searchLayerTurns(hw, query, ef, level, st, k) ==
    IF st.done THEN st
    ELSE IF k = 0 THEN searchLayerTurn(hw, query, ef, level, st)
    ELSE searchLayerTurns(hw, query, ef, level,
             searchLayerTurns(hw, query, ef, level, st, k - 1), k - 1)

\* The loop "for candidates.Len() > 0" of searchLayer.  Every node enters
\* the candidates at most once, so the loop takes at most one turn for each
\* node and one more to find the heap empty.
searchLayerLoop(hw, query, ef, level, st) ==
    searchLayerTurns(hw, query, ef, level, st,
                     Log2Above(Cardinality(DOMAIN hw.nodes) + 1))

\* The results heap popped from the back of the slice to its front.
\* 2^k pops, each put in front of the ones popped before it.
RECURSIVE drainTurns(_, _)
drainTurns(st, k) ==
    IF Len(st.heap) = 0 THEN st
    ELSE IF k = 0
         THEN LET p == HeapPop(st.heap, TRUE)
              IN  [heap |-> p.heap, out |-> <<p.item>> \o st.out]
         ELSE drainTurns(drainTurns(st, k - 1), k - 1)

drainResults(h) == drainTurns([heap |-> h, out |-> << >>], Log2Above(Len(h))).out

searchLayer(hw, query, entryID, ef, level) ==
    IF ~Has(hw.nodes, entryID) THEN << >>
    ELSE LET entryDist == distance(hw, query, hw.nodes[entryID].Vector)
             e   == [ID |-> entryID, Distance |-> entryDist]
             st0 == [candidates |-> <<e>>, results |-> <<e>>, visited |-> {entryID},
                     done |-> FALSE]
         IN  drainResults(searchLayerLoop(hw, query, ef, level, st0).results)

selectNeighbors(candidates, m) ==
    IF Len(candidates) <= m THEN candidates ELSE SubSeq(candidates, 1, m)

\* The neighbors of node.Neighbors[level] that are nodes of the graph, with
\* their distances to the node, in list order.
RECURSIVE pruneCandidates(_, _, _, _, _)
pruneCandidates(hw, node, nbrs, lo, hi) ==
    IF lo > hi THEN << >>
    ELSE IF lo = hi
    THEN IF Has(hw.nodes, nbrs[lo])
         THEN <<[ID |-> nbrs[lo],
                 Distance |-> distance(hw, node.Vector, hw.nodes[nbrs[lo]].Vector)]>>
         ELSE << >>
    ELSE pruneCandidates(hw, node, nbrs, lo, (lo + hi) \div 2)
         \o pruneCandidates(hw, node, nbrs, (lo + hi) \div 2 + 1, hi)

pruneConnections(hw, nodeID, level) ==
    IF ~Has(hw.nodes, nodeID) \/ level >= Len(hw.nodes[nodeID].Neighbors)
    THEN hw
    ELSE LET node     == hw.nodes[nodeID]
             cands    == pruneCandidates(hw, node, node.Neighbors[level + 1], 1,
                                         Len(node.Neighbors[level + 1]))
             selected == selectNeighbors(cands, M)
             ids      == [i \in 1..Len(selected) |-> selected[i].ID]
         IN  [hw EXCEPT !.nodes[nodeID].Neighbors[level + 1] = ids]

addConnection(hw, sourceID, targetID, level) ==
    IF ~Has(hw.nodes, sourceID) \/ level >= Len(hw.nodes[sourceID].Neighbors)
    THEN hw
    ELSE IF targetID \in Range(hw.nodes[sourceID].Neighbors[level + 1])
         THEN hw
         ELSE LET hw1 == [hw EXCEPT !.nodes[sourceID].Neighbors[level + 1] =
                                        Append(@, targetID)]
              IN  IF Len(hw1.nodes[sourceID].Neighbors[level + 1]) > M * 2
                  THEN pruneConnections(hw1, sourceID, level)
                  ELSE hw1

\* The reverse connections of one level of Add: selected[lo..hi] in list
\* order, the first half and then the second.  Add comes here only when the
\* graph has an entry point; reading the flag first has hw evaluated before
\* the connections are added.
RECURSIVE addReverse(_, _, _, _, _, _)
addReverse(hw, selected, vectorID, level, lo, hi) ==
    IF ~hw.hasEntry \/ lo > hi THEN hw
    ELSE IF lo = hi THEN addConnection(hw, selected[lo].ID, vectorID, level)
    ELSE addReverse(addReverse(hw, selected, vectorID, level, lo, (lo + hi) \div 2),
                    selected, vectorID, level, (lo + hi) \div 2 + 1, hi)

\* "for l := hw.MaxLevel; l > level; l--" of Add: the greedy descent.
RECURSIVE addDescend(_, _, _, _, _)
addDescend(hw, vector, ep, l, level) ==
    IF l <= level THEN ep
    ELSE addDescend(hw, vector, searchLayer(hw, vector, ep, 1, l)[1].ID, l - 1, level)

\* The body of the loop below at level l, with the neighbors searchLayer
\* found there.
addInsertLevel(acc, vectorID, l, neighbors) ==
    LET selected == selectNeighbors(neighbors, M)
    IN  [ep   |-> IF Len(neighbors) > 0 THEN neighbors[1].ID ELSE acc.ep,
         node |-> [acc.node EXCEPT
                      !.Neighbors[l + 1] = [i \in 1..Len(selected) |-> selected[i].ID]],
         hw   |-> addReverse(acc.hw, selected, vectorID, l, 1, Len(selected))]

\* "for l := min(level, hw.MaxLevel); l >= 0; l--" of Add.  acc holds the
\* graph, the new node (not yet in the graph) and the entry point.
RECURSIVE addInsert(_, _, _, _)
addInsert(acc, vectorID, vector, l) ==
    IF l < 0 THEN acc
    ELSE addInsert(addInsertLevel(acc, vectorID, l,
                       searchLayer(acc.hw, vector, acc.ep, EfConstruction, l)),
                   vectorID, vector, l - 1)

\* The end of Add: the node is stored, and becomes the entry point when its
\* level is above MaxLevel.
addStore(acc, vectorID, level) ==
    IF level > acc.hw.MaxLevel
    THEN [acc.hw EXCEPT !.nodes = Put(@, vectorID, acc.node),
                        !.MaxLevel = level,
                        !.entryPoint = vectorID]
    ELSE [acc.hw EXCEPT !.nodes = Put(@, vectorID, acc.node)]

\* HNSWWrapper.Add with the level randomLevel() drew.
HNSWAdd(hw, vectorID, vector, level) ==
    IF Len(vector) # hw.dimensions
    THEN [err |-> "dimension mismatch", hw |-> hw]
    ELSE IF Has(hw.nodes, vectorID)
    THEN [err |-> "already exists", hw |-> hw]
    ELSE LET node == [Vector |-> vector, Level |-> level,
                      Neighbors |-> [i \in 1..(level + 1) |-> << >>]]
         IN  IF ~hw.hasEntry
             THEN [err |-> "",
                   hw  |-> [hw EXCEPT !.nodes = Put(@, vectorID, node),
                                      !.entryPoint = vectorID,
                                      !.hasEntry = TRUE,
                                      !.MaxLevel = level]]
             ELSE [err |-> "",
                   hw  |-> addStore(
                       addInsert([hw   |-> hw,
                                  node |-> node,
                                  ep   |-> addDescend(hw, vector, hw.entryPoint,
                                                      hw.MaxLevel, level)],
                                 vectorID, vector, Min2(level, hw.MaxLevel)),
                       vectorID, level)]

\* A *BitSet: nil, or a set of vector ids.
NilBitSet == [isNil |-> TRUE, bits |-> {}]

NewBitSetFromSlice(values) == [isNil |-> FALSE, bits |-> Range(values)]

BitSetIsEmpty(bs) == bs.bits = {}

\* BitSet.Intersect: an empty set when either side is nil.
BitSetIntersect(a, b) ==
    IF a.isNil \/ b.isNil THEN [isNil |-> FALSE, bits |-> {}]
    ELSE [isNil |-> FALSE, bits |-> a.bits \cap b.bits]

\* "if len(candidates) > 0 { ep = candidates[0].ID }"
nearest(candidates, ep) == IF Len(candidates) > 0 THEN candidates[1].ID ELSE ep

\* "for l := hw.MaxLevel; l > 0; l--" of Search.
RECURSIVE searchDescend(_, _, _, _)
searchDescend(hw, query, ep, l) ==
    IF l <= 0 THEN ep
    ELSE searchDescend(hw, query, nearest(searchLayer(hw, query, ep, 1, l), ep), l - 1)

\* The loop of Search that copies candidates to results.
RECURSIVE searchCollect(_, _, _, _, _, _)
searchCollect(candidates, hasFilter, filter, k, results, i) ==
    IF i > Len(candidates) THEN results
    ELSE LET c == candidates[i] IN
         IF hasFilter /\ c.ID \notin filter.bits
         THEN searchCollect(candidates, hasFilter, filter, k, results, i + 1)
         ELSE LET r == Append(results, [VectorID |-> c.ID, Distance |-> c.Distance])
              IN  IF Len(r) >= k THEN r
                  ELSE searchCollect(candidates, hasFilter, filter, k, r, i + 1)

\* HNSWWrapper.Search.
HNSWSearch(hw, query, k, filter) ==
    IF Len(query) # hw.dimensions
    THEN [err |-> "dimension mismatch", results |-> << >>]
    ELSE IF ~hw.hasEntry
    THEN [err |-> "", results |-> << >>]
    ELSE LET hasFilter == ~filter.isNil /\ ~BitSetIsEmpty(filter)
             searchK   == IF hasFilter
                          THEN Min2(k * 10, Cardinality(DOMAIN hw.nodes))
                          ELSE k
             ep         == searchDescend(hw, query, hw.entryPoint, hw.MaxLevel)
             candidates == searchLayer(hw, query, ep, Max2(searchK, EfSearch), 0)
         IN  [err |-> "",
              results |-> searchCollect(candidates, hasFilter, filter, k, << >>, 1)]

removeConnection(hw, sourceID, targetID, level) ==
    IF ~Has(hw.nodes, sourceID) \/ level >= Len(hw.nodes[sourceID].Neighbors)
    THEN hw
    ELSE [hw EXCEPT !.nodes[sourceID].Neighbors[level + 1] =
                        SelectSeq(@, LAMBDA n : n # targetID)]

\* The inner loop of Delete over node.Neighbors[lv]: the neighbors
\* ids[lo..hi] in list order, the first half and then the second.  The node
\* deleted stays in hw.nodes until both loops have ended; reading that first
\* has hw evaluated before the neighbors are visited.
RECURSIVE removeFromLevel(_, _, _, _, _, _)
removeFromLevel(hw, vectorID, ids, lv, lo, hi) ==
    IF ~Has(hw.nodes, vectorID) \/ lo > hi THEN hw
    ELSE IF lo = hi THEN removeConnection(hw, ids[lo], vectorID, lv)
    ELSE removeFromLevel(removeFromLevel(hw, vectorID, ids, lv, lo, (lo + hi) \div 2),
                         vectorID, ids, lv, (lo + hi) \div 2 + 1, hi)

\* The two loops of Delete over node.Neighbors: level lv (a slice position),
\* neighbor position i.
RECURSIVE removeFromNeighbors(_, _, _, _, _)
removeFromNeighbors(hw, vectorID, nbrs, lv, i) ==
    IF lv >= Len(nbrs) THEN hw
    ELSE removeFromNeighbors(
             removeFromLevel(hw, vectorID, nbrs[lv + 1], lv, i, Len(nbrs[lv + 1])),
             vectorID, nbrs, lv + 1, 1)

\* updateEntryPoint without its "hw.MaxLevel = 0": the loop then replaces
\* the entry point only by a node above the old MaxLevel, and there is none.
updateEntryPointKeepsLevel(hw) ==
    IF DOMAIN hw.nodes = {}
    THEN {[hw EXCEPT !.hasEntry = FALSE]}
    ELSE {[hw EXCEPT !.hasEntry = TRUE, !.entryPoint = id] : id \in DOMAIN hw.nodes}

\* updateEntryPoint ranges over a Go map, whose order is not fixed: the new
\* entry point is the first node in that order among those of the highest
\* level, so any of them.  The set of graphs it can leave.
updateEntryPoint(hw) ==
    IF DOMAIN hw.nodes = {}
    THEN {[hw EXCEPT !.hasEntry = FALSE, !.MaxLevel = 0]}
    ELSE LET top == CHOOSE l \in {hw.nodes[n].Level : n \in DOMAIN hw.nodes} :
                        \A n \in DOMAIN hw.nodes : hw.nodes[n].Level <= l
         IN  {[hw EXCEPT !.hasEntry = TRUE, !.MaxLevel = top, !.entryPoint = id] :
                 id \in {n \in DOMAIN hw.nodes : hw.nodes[n].Level = top}}

\* A Delete that answers without error when the ID is not in the graph.
HNSWDeleteSilent(hw, vectorID) ==
    IF ~Has(hw.nodes, vectorID) THEN [err |-> "", hws |-> {hw}]
    ELSE LET hw1 == removeFromNeighbors(hw, vectorID, hw.nodes[vectorID].Neighbors, 0, 1)
             hw2 == [hw1 EXCEPT !.nodes = Del(@, vectorID)]
         IN  [err |-> "",
              hws |-> IF hw.entryPoint = vectorID THEN updateEntryPoint(hw2) ELSE {hw2}]

\* HNSWWrapper.Delete: the error, and the graphs it can leave.
HNSWDelete(hw, vectorID) ==
    IF ~Has(hw.nodes, vectorID)
    THEN [err |-> "not found", hws |-> {hw}]
    ELSE LET hw1 == removeFromNeighbors(hw, vectorID, hw.nodes[vectorID].Neighbors, 0, 1)
             hw2 == [hw1 EXCEPT !.nodes = Del(@, vectorID)]
         IN  [err |-> "",
              hws |-> IF hw.entryPoint = vectorID THEN updateEntryPoint(hw2) ELSE {hw2}]

HNSWCount(hw) == Cardinality(DOMAIN hw.nodes)

\* ------------------------------------------------------------------------
\* InvertedIndex.  A string is the sequence of its bytes (ASCII codes); the
\* index maps a term to a postings list.
\* ------------------------------------------------------------------------

\* strings.ToLower on one ASCII byte: 'A'..'Z' become 'a'..'z'.
ToLowerChar(ch) == IF ch >= 65 /\ ch <= 90 THEN ch + 32 ELSE ch

ToLower(kw) == [i \in 1..Len(kw) |-> ToLowerChar(kw[i])]

GenerateTrigrams(keyword) ==
    LET kw == ToLower(keyword)
    IN  IF Len(kw) < 3 THEN <<kw>>
        ELSE [i \in 1..(Len(kw) - 2) |-> SubSeq(kw, i, i + 2)]

appendUnique(slice, value) ==
    IF value \in Range(slice) THEN slice ELSE Append(slice, value)

\* index[term], the empty list for a term the map does not hold.
Postings(index, term) == IF Has(index, term) THEN index[term] ELSE << >>

\* "kw:" + kw
ExactTerm(kw) == <<107, 119, 58>> \o kw

RECURSIVE addTrigrams(_, _, _, _)
addTrigrams(index, trigrams, vectorID, i) ==
    IF i > Len(trigrams) THEN index
    ELSE addTrigrams(Put(index, trigrams[i],
                         appendUnique(Postings(index, trigrams[i]), vectorID)),
                     trigrams, vectorID, i + 1)

\* InvertedIndex.Add.
RECURSIVE InvertedIndexAdd(_, _, _, _)
InvertedIndexAdd(index, keywords, vectorID, i) ==
    IF i > Len(keywords) THEN index
    ELSE LET kw   == ToLower(keywords[i])
             idx1 == addTrigrams(index, GenerateTrigrams(kw), vectorID, 1)
             idx2 == Put(idx1, ExactTerm(kw),
                         appendUnique(Postings(idx1, ExactTerm(kw)), vectorID))
         IN  InvertedIndexAdd(idx2, keywords, vectorID, i + 1)

RECURSIVE searchExactRest(_, _, _, _)
searchExactRest(index, keywords, result, i) ==
    IF i > Len(keywords) THEN result
    ELSE searchExactRest(index, keywords,
             BitSetIntersect(result,
                 NewBitSetFromSlice(Postings(index, ExactTerm(ToLower(keywords[i]))))),
             i + 1)

\* InvertedIndex.SearchExact: nil for no keywords.
SearchExact(index, keywords) ==
    IF Len(keywords) = 0 THEN NilBitSet
    ELSE searchExactRest(index, keywords,
             NewBitSetFromSlice(Postings(index, ExactTerm(ToLower(keywords[1])))), 2)

\* The candidates SearchPartial collects for one substring: the ids in the
\* postings of its first trigram, intersected with those of the others.
partialCandidates(index, substr) ==
    LET trigrams == GenerateTrigrams(ToLower(substr))
    IN  {id \in Range(Postings(index, trigrams[1])) :
            \A i \in 2..Len(trigrams) : id \in Range(Postings(index, trigrams[i]))}

\* InvertedIndex.SearchPartial: nil for no substrings.
SearchPartial(index, substrings) ==
    IF Len(substrings) = 0 THEN NilBitSet
    ELSE [isNil |-> FALSE,
          bits  |-> {id \in partialCandidates(index, substrings[1]) :
                        \A j \in 2..Len(substrings) :
                            id \in partialCandidates(index, substrings[j])}]

\* ------------------------------------------------------------------------
\* ForwardIndex (DocMap): vector id -> [Key, Index]
\* ------------------------------------------------------------------------

GetNextVectorID(mapping) ==
    LET maxID == IF DOMAIN mapping = {} THEN 0
                 ELSE CHOOSE id \in DOMAIN mapping : \A o \in DOMAIN mapping : o <= id
    IN  maxID + 1

\* binary.BigEndian on n bytes.
RECURSIVE UintToBytes(_, _)
UintToBytes(v, n) ==
    IF n = 0 THEN << >> ELSE Append(UintToBytes(v \div 256, n - 1), v % 256)

VectorIDToBytes(id) == UintToBytes(id, 8)

RECURSIVE BytesToUint(_, _)
BytesToUint(data, n) ==
    IF n = 0 THEN 0 ELSE BytesToUint(data, n - 1) * 256 + data[n]

BytesToVectorID(data) ==
    IF Len(data) # 8 THEN [err |-> "invalid vector ID data length", id |-> 0]
    ELSE [err |-> "", id |-> BytesToUint(data, 8)]

\* ------------------------------------------------------------------------
\* Collection
\* ------------------------------------------------------------------------

\* The collection CreateCollection and loadCollection start from.
NewCollection(config) ==
    [Config       |-> config,
     HNSWIndex    |-> NewHNSWWrapper(config.Dimensions, config.Metric),
     KeywordIndex |-> EmptyMap,
     DocMap       |-> EmptyMap,
     KeyLengths   |-> EmptyMap,
     KeyIndex     |-> EmptyMap]

\* Collection.AppendBlock after c.HNSWIndex.Add has returned added.
collAppendAdded(c, key, block, added) ==
    LET index    == IF Has(c.KeyLengths, key) THEN c.KeyLengths[key] ELSE 0
        vectorID == GetNextVectorID(c.DocMap)
    IN  IF added.err # ""
        THEN [err |-> "failed to add vector", index |-> 0, coll |-> c]
        ELSE [err   |-> "",
              index |-> index,
              coll  |-> [c EXCEPT
                  !.HNSWIndex    = added.hw,
                  !.DocMap       = Put(@, vectorID, [Key |-> key, Index |-> index]),
                  !.KeywordIndex = IF Len(block.Keywords) > 0
                                   THEN InvertedIndexAdd(@, block.Keywords, vectorID, 1)
                                   ELSE @,
                  !.KeyLengths   = Put(@, key, index + 1),
                  !.KeyIndex     = Put(@, key,
                                       Append(IF Has(c.KeyIndex, key)
                                              THEN c.KeyIndex[key] ELSE << >>,
                                              vectorID))]]

\* Collection.AppendBlock, with the level randomLevel() drew for the vector.
CollAppendBlock(c, key, block, level) ==
    collAppendAdded(c, key, block,
        IF Len(block.Vector) > 0
        THEN HNSWAdd(c.HNSWIndex, GetNextVectorID(c.DocMap), block.Vector, level)
        ELSE [err |-> "", hw |-> c.HNSWIndex])

\* The loop of Collection.DeleteKey without c.HNSWIndex.Delete(id).
RECURSIVE deleteVectorIDsForwardOnly(_, _, _)
deleteVectorIDsForwardOnly(colls, vectorIDs, i) ==
    IF i > Len(vectorIDs) THEN colls
    ELSE deleteVectorIDsForwardOnly({[c EXCEPT !.DocMap = Del(@, vectorIDs[i])] : c \in colls},
                                    vectorIDs, i + 1)

\* The loop of Collection.DeleteKey over the key's vector ids: the set of
\* collections it can leave (HNSWIndex.Delete's error is dropped).
RECURSIVE deleteVectorIDs(_, _, _)
deleteVectorIDs(colls, vectorIDs, i) ==
    IF i > Len(vectorIDs) THEN colls
    ELSE deleteVectorIDs(
             UNION {{[c EXCEPT !.HNSWIndex = hw, !.DocMap = Del(@, vectorIDs[i])] :
                        hw \in HNSWDelete(c.HNSWIndex, vectorIDs[i]).hws} : c \in colls},
             vectorIDs, i + 1)

\* Collection.DeleteKey without delete(c.KeyLengths, key).
CollDeleteKeyKeepsLength(c, key) ==
    IF ~Has(c.KeyIndex, key)
    THEN [err |-> "key not found", colls |-> {c}]
    ELSE [err   |-> "",
          colls |-> {[d EXCEPT !.KeyIndex = Del(@, key)] :
                        d \in deleteVectorIDs({c}, c.KeyIndex[key], 1)}]

\* Collection.DeleteKey.
CollDeleteKey(c, key) ==
    IF ~Has(c.KeyIndex, key)
    THEN [err |-> "key not found", colls |-> {c}]
    ELSE [err   |-> "",
          colls |-> {[d EXCEPT !.KeyLengths = Del(@, key), !.KeyIndex = Del(@, key)] :
                        d \in deleteVectorIDs({c}, c.KeyIndex[key], 1)}]

CollGetKeyLength(c, key) ==
    IF Has(c.KeyLengths, key) THEN [err |-> "", length |-> c.KeyLengths[key]]
    ELSE [err |-> "key not found", length |-> 0]

RECURSIVE findBlockVectorID(_, _, _, _)
findBlockVectorID(c, vectorIDs, index, i) ==
    IF i > Len(vectorIDs) THEN [err |-> "block not found", id |-> 0]
    ELSE IF Has(c.DocMap, vectorIDs[i]) /\ c.DocMap[vectorIDs[i]].Index = index
         THEN [err |-> "", id |-> vectorIDs[i]]
         ELSE findBlockVectorID(c, vectorIDs, index, i + 1)

\* Collection.GetBlockVectorID.
GetBlockVectorID(c, key, index) ==
    IF ~Has(c.KeyIndex, key) THEN [err |-> "key not found", id |-> 0]
    ELSE findBlockVectorID(c, c.KeyIndex[key], index, 1)

ContainsKey(c, key) == Has(c.KeyLengths, key)

\* Collection.GetVectorByID.
GetVectorByID(c, id) ==
    IF Has(c.HNSWIndex.nodes, id)
    THEN [ok |-> TRUE, vector |-> c.HNSWIndex.nodes[id].Vector]
    ELSE [ok |-> FALSE, vector |-> << >>]

\* Collection.Count that counts the forward index.
CollCountEntries(c) == Cardinality(DOMAIN c.DocMap)

\* Collection.Count.
CollCount(c) == HNSWCount(c.HNSWIndex)

\* The key filter of Collection.Search: the ids of the listed keys.
RECURSIVE keyBitset(_, _, _)
keyBitset(c, keys, i) ==
    IF i > Len(keys) THEN {}
    ELSE (IF Has(c.KeyIndex, keys[i]) THEN Range(c.KeyIndex[keys[i]]) ELSE {})
         \cup keyBitset(c, keys, i + 1)

\* The *BitSet Collection.Search hands to HNSWIndex.Search.  filter is
\* [isNil, Keywords, Keys]; the keyword mode of the model is "exact".
SearchBitset(c, filter) ==
    LET kwBits == IF ~filter.isNil /\ Len(filter.Keywords) > 0
                  THEN SearchExact(c.KeywordIndex, filter.Keywords)
                  ELSE NilBitSet
    IN  IF ~filter.isNil /\ Len(filter.Keys) > 0
        THEN LET kb == [isNil |-> FALSE, bits |-> keyBitset(c, filter.Keys, 1)]
             IN  IF kwBits.isNil THEN kb ELSE BitSetIntersect(kwBits, kb)
        ELSE kwBits

\* The conversion loop of Collection.Search: orphans are skipped.
RECURSIVE convertResults(_, _, _)
convertResults(c, hnswResults, i) ==
    IF i > Len(hnswResults) THEN << >>
    ELSE LET hr == hnswResults[i] IN
         (IF Has(c.DocMap, hr.VectorID)
          THEN <<[Key      |-> c.DocMap[hr.VectorID].Key,
                  Index    |-> c.DocMap[hr.VectorID].Index,
                  Distance |-> hr.Distance,
                  VectorID |-> hr.VectorID]>>
          ELSE << >>) \o convertResults(c, hnswResults, i + 1)

\* Collection.Search after c.HNSWIndex.Search has returned r.
collSearchResults(c, r) ==
    IF r.err # "" THEN [err |-> r.err, results |-> << >>]
    ELSE [err |-> "", results |-> convertResults(c, r.results, 1)]

\* Collection.Search.  VectorID is not a field of SearchResultItem: the
\* model keeps it to say which vector a result line stands for.
CollSearch(c, queryVector, topK, filter) ==
    collSearchResults(c, HNSWSearch(c.HNSWIndex, queryVector, topK,
                                    SearchBitset(c, filter)))

\* rebuildMemoryIndexes ranges over the DocMap, a Go map: KeyIndex[key] lists
\* the key's ids in the order the map yielded them, KeyLengths[key] is the
\* highest index plus one.  The set of (KeyLengths, KeyIndex) it can build.
Orderings(S) ==
    {q \in [1..Cardinality(S) -> S] : \A i, j \in 1..Cardinality(S) : i # j => q[i] # q[j]}

\* rebuildMemoryIndexes with a length of the highest index plus two.
rebuildMemoryIndexesLong(docMap) ==
    LET keys   == {docMap[id].Key : id \in DOMAIN docMap}
        idsOf(k) == {id \in DOMAIN docMap : docMap[id].Key = k}
        maxIdx(k) == CHOOSE n \in {docMap[id].Index : id \in idsOf(k)} :
                        \A id \in idsOf(k) : docMap[id].Index <= n
    IN  {[KeyLengths |-> [k \in keys |-> maxIdx(k) + 2], KeyIndex |-> ki] :
            ki \in {f \in [keys -> UNION {Orderings(idsOf(k)) : k \in keys}] :
                       \A k \in keys : Range(f[k]) = idsOf(k)}}

rebuildMemoryIndexes(docMap) ==
    LET keys   == {docMap[id].Key : id \in DOMAIN docMap}
        idsOf(k) == {id \in DOMAIN docMap : docMap[id].Key = k}
        maxIdx(k) == CHOOSE n \in {docMap[id].Index : id \in idsOf(k)} :
                        \A id \in idsOf(k) : docMap[id].Index <= n
    IN  {[KeyLengths |-> [k \in keys |-> maxIdx(k) + 1], KeyIndex |-> ki] :
            ki \in {f \in [keys -> UNION {Orderings(idsOf(k)) : k \in keys}] :
                       \A k \in keys : Range(f[k]) = idsOf(k)}}

\* ------------------------------------------------------------------------
\* Entry codec (EncodeEntry / DecodeEntry).  An encoded entry is the sequence
\* of its bytes.
\* ------------------------------------------------------------------------

CurrentHeaderSize == 18

MaxKeywordLength == 128

\* keywordRegex ^[a-z0-9_-]+$ on one byte.
KeywordChar(ch) ==
    \/ ch >= 97 /\ ch <= 122
    \/ ch >= 48 /\ ch <= 57
    \/ ch = 95
    \/ ch = 45

ValidateKeyword(keyword) ==
    /\ Len(keyword) > 0
    /\ Len(keyword) <= MaxKeywordLength
    /\ \A i \in 1..Len(keyword) : KeywordChar(ToLowerChar(keyword[i]))

\* A NormalizeKeyword that stores the keyword as it was given.
NormalizeKeywordKeeps(keyword) == keyword

NormalizeKeyword(keyword) == ToLower(keyword)

RECURSIVE encodeKeywordList(_, _)
encodeKeywordList(keywords, i) ==
    IF i > Len(keywords) THEN << >>
    ELSE <<Len(keywords[i])>> \o NormalizeKeyword(keywords[i])
            \o encodeKeywordList(keywords, i + 1)

EncodeKeywords(keywords) ==
    IF \E i \in 1..Len(keywords) : ~ValidateKeyword(NormalizeKeyword(keywords[i]))
    THEN [err |-> "invalid keyword", bytes |-> << >>]
    ELSE [err |-> "", bytes |-> UintToBytes(Len(keywords), 2) \o encodeKeywordList(keywords, 1)]

\* The loop of DecodeKeywords: count keywords left, pos the next byte to read
\* (a position of the Go slice).  A short read of a keyword's bytes leaves
\* the bytes that were not read zero; a read at the end of the data fails.
RECURSIVE decodeKeywordList(_, _, _)
decodeKeywordList(data, count, pos) ==
    IF count = 0 THEN [err |-> "", keywords |-> << >>]
    ELSE IF pos >= Len(data)
    THEN [err |-> "failed to read keyword length", keywords |-> << >>]
    ELSE LET n    == data[pos + 1]
             left == Len(data) - (pos + 1)
             have == Min2(n, left)
             kw   == [j \in 1..n |-> IF j <= have THEN data[pos + 1 + j] ELSE 0]
         IN  IF left = 0
             THEN [err |-> "failed to read keyword", keywords |-> << >>]
             ELSE LET rest == decodeKeywordList(data, count - 1, pos + 1 + have)
                  IN  IF rest.err # "" THEN rest
                      ELSE [err |-> "", keywords |-> <<kw>> \o rest.keywords]

DecodeKeywords(data) ==
    IF Len(data) < 2 THEN [err |-> "keywords data too short", keywords |-> << >>]
    ELSE decodeKeywordList(data, BytesToUint(SubSeq(data, 1, 2), 2), 2)

\* A checksum that looks at the length of the data only.
ChecksumLength(data) == Len(data)

\* crc32.ChecksumIEEE is a library function; the model puts in its place a
\* position-weighted sum of the bytes modulo 2^24, which like the CRC
\* depends on every byte and on its position.
RECURSIVE WeightedSum(_, _)
WeightedSum(data, n) ==
    IF n = 0 THEN 0
    ELSE (WeightedSum(data, n - 1) + n * (data[n] + 1)) % (256 * 256 * 256)

ChecksumIEEE(data) == WeightedSum(data, Len(data))

\* types.EncodeFlags / types.ParseFlags.
EncodeFlags(ef) ==
    (ef.DataType % 8) + (IF ef.Compressed THEN 8 ELSE 0) + (IF ef.Tombstone THEN 16 ELSE 0)

ParseFlags(flags) ==
    [DataType   |-> flags % 8,
     Compressed |-> (flags \div 8) % 2 = 1,
     Tombstone  |-> (flags \div 16) % 2 = 1]

\* EncodeEntry: header (with the CRC over the entry whose CRC field is
\* zero), key, keywords block, primary data, secondary data.
EncodeEntry(entry) ==
    LET kw == EncodeKeywords(entry.Keywords)
        head(crc) == <<CurrentHeaderSize, EncodeFlags(entry.Flags)>>
                     \o UintToBytes(Len(entry.Key), 2)
                     \o UintToBytes(Len(entry.PrimaryData), 4)
                     \o UintToBytes(Len(entry.SecondaryData), 4)
                     \o UintToBytes(Len(kw.bytes), 2)
                     \o UintToBytes(crc, 4)
        body == entry.Key \o kw.bytes \o entry.PrimaryData \o entry.SecondaryData
    IN  IF kw.err # "" THEN [err |-> "failed to encode keywords", bytes |-> << >>]
        ELSE [err |-> "", bytes |-> head(ChecksumIEEE(head(0) \o body)) \o body]

\* DecodeEntry.
DecodeEntry(data) ==
    LET none == [Flags |-> ParseFlags(0), Key |-> << >>, Keywords |-> << >>,
                 PrimaryData |-> << >>, SecondaryData |-> << >>]
    IN
    IF Len(data) < CurrentHeaderSize \/ data[1] > Len(data)
    THEN [err |-> "bad header", entry |-> none]
    ELSE LET HeaderSize   == data[1]
             KeyLen       == BytesToUint(SubSeq(data, 3, 4), 2)
             PrimaryLen   == BytesToUint(SubSeq(data, 5, 8), 4)
             SecondaryLen == BytesToUint(SubSeq(data, 9, 12), 4)
             KwLen        == BytesToUint(SubSeq(data, 13, 14), 2)
             storedCRC    == BytesToUint(SubSeq(data, 15, 18), 4)
             dataCopy     == [i \in 1..Len(data) |->
                                 IF i >= 15 /\ i <= 18 THEN 0 ELSE data[i]]
             keyEnd       == HeaderSize + KeyLen
             kwEnd        == keyEnd + KwLen
             primaryEnd   == kwEnd + PrimaryLen
             secondaryEnd == primaryEnd + SecondaryLen
         IN  IF storedCRC # ChecksumIEEE(dataCopy)
             THEN [err |-> "CRC mismatch", entry |-> none]
             ELSE IF secondaryEnd > Len(data)
             THEN [err |-> "data truncated", entry |-> none]
             ELSE LET kws == DecodeKeywords(SubSeq(data, keyEnd + 1, kwEnd))
                  IN  IF kws.err # ""
                      THEN [err |-> "failed to decode keywords", entry |-> none]
                      ELSE [err   |-> "",
                            entry |-> [Flags         |-> ParseFlags(data[2]),
                                       Key           |-> SubSeq(data, HeaderSize + 1, keyEnd),
                                       Keywords      |-> kws.keywords,
                                       PrimaryData   |-> SubSeq(data, kwEnd + 1, primaryEnd),
                                       SecondaryData |-> SubSeq(data, primaryEnd + 1,
                                                                secondaryEnd)]]

\* ------------------------------------------------------------------------
\* storage.Manager: the sharded append-only log.  A shard file is the
\* sequence of its bytes, an offset a position in it (from 0).
\* ------------------------------------------------------------------------

BucketIDs == 0..(PartitionCount - 1)

\* zstd is a library; the model puts in its place a frame made of the zstd
\* magic number followed by the bytes as they are.
ZstdMagic == <<40, 181, 47, 253>>

CompressBytes(src) == ZstdMagic \o src

DecompressBytes(src) ==
    IF Len(src) >= 4 /\ SubSeq(src, 1, 4) = ZstdMagic
    THEN [err |-> "", bytes |-> SubSeq(src, 5, Len(src))]
    ELSE [err |-> "invalid input", bytes |-> << >>]

RECURSIVE ByteSum(_, _)
ByteSum(data, n) == IF n = 0 THEN 0 ELSE ByteSum(data, n - 1) + data[n]

\* getBucketID.  BLAKE3 is a library hash; the model puts in its place the
\* sum of the key's bytes as the value that is reduced modulo
\* PartitionCount.
getBucketID(key) == ByteSum(key, Len(key)) % PartitionCount

\* The record Append writes: [KeyLen(4)][Key][PayloadLen(4)][Payload].
ShardRecord(key, payload) ==
    UintToBytes(Len(key), 4) \o key
        \o UintToBytes(Len(CompressBytes(payload)), 4) \o CompressBytes(payload)

\* Manager.Append on the bucket's file and index: the offset is the end of
\* the file.
ManagerAppend(file, index, key, payload) ==
    IF Len(key) = 0 \/ Len(key) > 1024
    THEN [err |-> "invalid key length", file |-> file, index |-> index]
    ELSE [err   |-> "",
          file  |-> file \o ShardRecord(key, payload),
          index |-> Put(index, key,
                        Append(IF Has(index, key) THEN index[key] ELSE << >>, Len(file)))]

\* Manager.Append when bucket.File.Write may fail (failed): the index is
\* then left as it was.
ManagerAppendIO(file, index, key, payload, failed) ==
    IF failed /\ Len(key) > 0 /\ Len(key) <= 1024
    THEN [err |-> "write failed", file |-> file, index |-> index]
    ELSE ManagerAppend(file, index, key, payload)

\* Bucket.readRecordAt.
readRecordAt(file, offset) ==
    IF Len(file) - offset < 4
    THEN [err |-> "record too short (header)", bytes |-> << >>]
    ELSE LET keyLen    == BytesToUint(SubSeq(file, offset + 1, offset + 4), 4)
             headerEnd == 4 + keyLen + 4
         IN  IF Len(file) - offset < headerEnd
             THEN [err |-> "EOF", bytes |-> << >>]
             ELSE LET payloadLen == BytesToUint(SubSeq(file, offset + 4 + keyLen + 1,
                                                       offset + headerEnd), 4)
                      totalSize  == headerEnd + payloadLen
                  IN  IF Len(file) - offset < totalSize
                      THEN [err |-> "EOF", bytes |-> << >>]
                      ELSE DecompressBytes(SubSeq(file, offset + headerEnd + 1,
                                                  offset + totalSize))

\* Manager.Get.
ManagerGet(file, index, key, i) ==
    IF ~Has(index, key) \/ i >= Len(index[key]) \/ i < 0
    THEN [err |-> "index out of bounds or key not found", bytes |-> << >>]
    ELSE readRecordAt(file, index[key][i + 1])

\* Bucket.rebuildIndex: the scan of the file from offset.
RECURSIVE rebuildIndex(_, _, _)
rebuildIndex(file, index, offset) ==
    IF offset >= Len(file) \/ Len(file) - offset < 4 THEN index
    ELSE LET keyLen == BytesToUint(SubSeq(file, offset + 1, offset + 4), 4)
         IN  IF Len(file) - offset < 4 + keyLen + 4 THEN index
             ELSE LET key        == SubSeq(file, offset + 5, offset + 4 + keyLen)
                      payloadLen == BytesToUint(SubSeq(file, offset + 4 + keyLen + 1,
                                                       offset + 8 + keyLen), 4)
                  IN  rebuildIndex(file,
                          Put(index, key,
                              Append(IF Has(index, key) THEN index[key] ELSE << >>, offset)),
                          offset + 8 + keyLen + payloadLen)

\* ------------------------------------------------------------------------
\* Files of a collection directory.  A file that does not exist is
\* [exists |-> FALSE]; the gob files hold the encoded Go value under its
\* type.
\* ------------------------------------------------------------------------

NoFile == [exists |-> FALSE]

hnswMagic == "HNSWV001"

metricToByte(m) == CASE m = "cosine" -> 1 [] m = "ip" -> 2 [] OTHER -> 0

byteToMetric(b) == CASE b = 1 -> "cosine" [] b = 2 -> "ip" [] OTHER -> "l2"

\* The node ids in increasing order (sort.Slice in Save).
RECURSIVE SortedIDs(_)
SortedIDs(S) ==
    IF S = {} THEN << >>
    ELSE LET m == CHOOSE x \in S : \A y \in S : x <= y
         IN  <<m>> \o SortedIDs(S \ {m})

\* HNSWWrapper.Save: header, node table, vectors and neighbor lists, the
\* nodes in increasing id order.
HNSWSave(hw) ==
    LET nodeIDs == SortedIDs(DOMAIN hw.nodes)
    IN  [exists     |-> TRUE,
         magic      |-> hnswMagic,
         dimensions |-> hw.dimensions,
         metric     |-> metricToByte(hw.metric),
         nodeCount  |-> Len(nodeIDs),
         entryPoint |-> hw.entryPoint,
         maxLevel   |-> hw.MaxLevel,
         m          |-> M,
         hasEntry   |-> IF hw.hasEntry THEN 1 ELSE 0,
         table      |-> [i \in 1..Len(nodeIDs) |->
                            [id |-> nodeIDs[i], level |-> hw.nodes[nodeIDs[i]].Level]],
         vectors    |-> [i \in 1..Len(nodeIDs) |-> hw.nodes[nodeIDs[i]].Vector],
         neighbors  |-> [i \in 1..Len(nodeIDs) |-> hw.nodes[nodeIDs[i]].Neighbors]]

\* HNSWWrapper.Load into a fresh wrapper hw.
HNSWLoad(hw, file) ==
    IF ~file.exists THEN [err |-> "", hw |-> hw]
    ELSE IF file.magic # hnswMagic THEN [err |-> "wrong magic number", hw |-> hw]
    ELSE IF file.dimensions # hw.dimensions THEN [err |-> "dimension mismatch", hw |-> hw]
    ELSE IF byteToMetric(file.metric) # hw.metric THEN [err |-> "metric mismatch", hw |-> hw]
    ELSE [err |-> "",
          hw  |-> [hw EXCEPT
              !.nodes      = [id \in {file.table[i].id : i \in 1..file.nodeCount} |->
                                 LET i == CHOOSE j \in 1..file.nodeCount :
                                              file.table[j].id = id
                                 IN  [Vector    |-> file.vectors[i],
                                      Level     |-> file.table[i].level,
                                      Neighbors |-> file.neighbors[i]]],
              !.entryPoint = file.entryPoint,
              !.hasEntry   = (file.hasEntry = 1),
              !.MaxLevel   = file.maxLevel]]

\* InvertedIndex.Save / ForwardIndex.Save / Bucket.saveIndex: gob of a map.
GobSave(type, value) == [exists |-> TRUE, type |-> type, value |-> value]

\* The Load of the same three: a missing file leaves the map empty (for the
\* shard index it is an error, and NewManager rebuilds).
GobLoad(type, file) ==
    IF ~file.exists THEN [err |-> "not exist", value |-> EmptyMap]
    ELSE IF file.type # type THEN [err |-> "type mismatch", value |-> EmptyMap]
    ELSE [err |-> "", value |-> file.value]

\* SaveCollectionMeta / LoadCollectionMeta: meta.json.
SaveCollectionMeta(config) ==
    [exists |-> TRUE, name |-> config.Name, dimensions |-> config.Dimensions,
     metric |-> config.Metric]

\* Collection.Save (and Close, which saves the same three files).
CollSave(c, dir) ==
    [dir EXCEPT !.hnsw   = HNSWSave(c.HNSWIndex),
                !.kw     = GobSave("map[string][]uint64", c.KeywordIndex),
                !.docmap = GobSave("map[uint64]DocLocation", c.DocMap)]

\* Collection.Save when the Save of the files in failed returns an error:
\* those files stay as they were.
CollSaveIO(c, dir, failed) ==
    [dir EXCEPT !.hnsw   = IF "hnsw" \in failed THEN @ ELSE HNSWSave(c.HNSWIndex),
                !.kw     = IF "kw" \in failed THEN @
                           ELSE GobSave("map[string][]uint64", c.KeywordIndex),
                !.docmap = IF "docmap" \in failed THEN @
                           ELSE GobSave("map[uint64]DocLocation", c.DocMap)]

\* loadCollection: the set of collections it can build from the directory
\* (rebuildMemoryIndexes ranges over a Go map).
loadCollection(dir) ==
    LET config == [Name |-> dir.meta.name, Dimensions |-> dir.meta.dimensions,
                   Metric |-> dir.meta.metric]
        fresh  == NewCollection(config)
        hnsw   == HNSWLoad(fresh.HNSWIndex, dir.hnsw)
        docMap == GobLoad("map[uint64]DocLocation", dir.docmap).value
    IN  {[fresh EXCEPT !.HNSWIndex    = hnsw.hw,
                       !.KeywordIndex = GobLoad("map[string][]uint64", dir.kw).value,
                       !.DocMap       = docMap,
                       !.KeyLengths   = mem.KeyLengths,
                       !.KeyIndex     = mem.KeyIndex] :
            mem \in rebuildMemoryIndexes(docMap)}

ValidateCollectionConfig(config) ==
    IF config.Name = "" THEN "collection name cannot be empty"
    ELSE IF config.Dimensions = 0 THEN "dimensions must be greater than 0"
    ELSE IF config.Metric \notin Metrics THEN "invalid metric"
    ELSE ""

\* ------------------------------------------------------------------------
\* WAL.  The file is a gob stream: each encoder sends the description of
\* WALEntry before its first value, so the stream is a sequence of
\* [typeDef |-> TRUE] and [typeDef |-> FALSE, entry |-> e] items.
\* ------------------------------------------------------------------------

WALOpAdd == 1

WALOpDelete == 2

\* WAL.log with an encoder that has (sentType) or has not yet sent the type.
WALLog(file, sentType, entry) ==
    (IF sentType THEN file ELSE Append(file, [typeDef |-> TRUE]))
        \o <<[typeDef |-> FALSE, entry |-> entry]>>

\* WAL.LogAdd that returns before the record is written.
LogAddUnwritten(file, sentType, collection, key, vector, keywords, data) == file

LogAdd(file, sentType, collection, key, vector, keywords, data) ==
    WALLog(file, sentType,
           [OpType |-> WALOpAdd, Collection |-> collection, Key |-> key, VectorID |-> 0,
            Vector |-> vector, Keywords |-> keywords, Data |-> data])

LogDelete(file, sentType, collection, key) ==
    WALLog(file, sentType,
           [OpType |-> WALOpDelete, Collection |-> collection, Key |-> key, VectorID |-> 0,
            Vector |-> << >>, Keywords |-> << >>, Data |-> << >>])

\* The entries of the stream items 1..n.
RECURSIVE walEntries(_, _)
walEntries(file, n) ==
    IF n = 0 THEN << >>
    ELSE walEntries(file, n - 1)
            \o (IF file[n].typeDef THEN << >> ELSE <<file[n].entry>>)

\* WAL.Replay: one decoder reads the whole file.  A type description met
\* after the first one comes from a later encoder; the decoder takes it if
\* its type id is new to it and fails with "duplicate type received" if not,
\* which depends on the ids the two processes gave the type.  On that error
\* Replay returns the entries read so far.  The set of entry lists it can
\* return.
Replay(file) ==
    {walEntries(file, Len(file))}
    \cup {walEntries(file, n - 1) : n \in {i \in 2..Len(file) : file[i].typeDef}}

\* ------------------------------------------------------------------------
\* VectorManager.  Its operations work on st, the part of the program state
\* they read and write: the loaded collections, the bucket indexes, the
\* WAL encoder, the shard files and the WAL file.
\* ------------------------------------------------------------------------

NoBlock == [Primary |-> << >>, Keywords |-> << >>, Vector |-> << >>]

\* The I/O errors an operation meets, carried in st.io: wal[i] is how the
\* i-th WAL.log call of the operation ends ("ok"; "encode": encoder.Encode
\* fails and nothing reaches the file; "sync": the record is written and
\* file.Sync fails), shard the keys for which File.Write on the shard file
\* fails.
NoFault == [wal |-> << >>, shard |-> {}]

WalFault(st, i) == IF i \in DOMAIN st.io.wal THEN st.io.wal[i] ELSE "ok"

\* The state the i-th WAL.log call leaves when written is the file with the
\* record.
walLogged(st, i, written) ==
    IF WalFault(st, i) = "encode" THEN st
    ELSE [st EXCEPT !.walFile = written, !.walSentType = TRUE]

\* VectorManager.AppendBlock after vm.Manager.Append has returned put for
\* bucket b.
appendStored(st2, b, index, vectorID, put) ==
    IF put.err # ""
    THEN [err |-> "storage append failed", index |-> index, vectorID |-> vectorID,
          st |-> st2]
    ELSE [err |-> "", index |-> index, vectorID |-> vectorID,
          st |-> [st2 EXCEPT !.shardFiles[b] = put.file, !.Buckets[b] = put.index]]

\* VectorManager.AppendBlock after EncodeEntry has returned encoded.
appendEncoded(st2, key, index, vectorID, encoded) ==
    IF encoded.err # ""
    THEN [err |-> "failed to encode entry", index |-> 0, vectorID |-> vectorID,
          st |-> st2]
    ELSE appendStored(st2, getBucketID(key), index, vectorID,
             ManagerAppendIO(st2.shardFiles[getBucketID(key)], st2.Buckets[getBucketID(key)],
                             key, encoded.bytes, key \in st2.io.shard))

\* VectorManager.AppendBlock after coll.GetBlockVectorID has returned vid.
appendIdentified(st2, key, block, index, vid) ==
    IF vid.err # ""
    THEN [err |-> "failed to retrieve vector ID after append",
          index |-> 0, vectorID |-> 0, st |-> st2]
    ELSE appendEncoded(st2, key, index, vid.id,
             EncodeEntry([Key           |-> key,
                          Keywords      |-> block.Keywords,
                          PrimaryData   |-> block.Primary,
                          SecondaryData |-> VectorIDToBytes(vid.id),
                          Flags         |-> [DataType   |-> IF Len(block.Vector) > 0
                                                            THEN 1 ELSE 0,
                                             Compressed |-> FALSE,
                                             Tombstone  |-> FALSE]]))

\* VectorManager.AppendBlock after coll.AppendBlock has returned app.
appendMinted(st1, collection, key, block, app) ==
    IF app.err # ""
    THEN [err |-> app.err, index |-> 0, vectorID |-> 0, st |-> st1]
    ELSE appendIdentified([st1 EXCEPT !.collections[collection] = app.coll],
                          key, block, app.index,
                          GetBlockVectorID(app.coll, key, app.index))

\* VectorManager.AppendBlock with the level randomLevel() draws.  Each early
\* return keeps what the steps before it did.
VMAppendBlock(st, collection, key, block, level) ==
    IF ~Has(st.collections, collection)
    THEN [err |-> "collection not found", index |-> 0, vectorID |-> 0, st |-> st]
    ELSE IF WalFault(st, 1) # "ok"
    THEN [err |-> "WAL logging failed", index |-> 0, vectorID |-> 0,
          st  |-> walLogged(st, 1,
                      LogAdd(st.walFile, st.walSentType, collection, key,
                             block.Vector, block.Keywords, block.Primary))]
    ELSE appendMinted(walLogged(st, 1,
                          LogAdd(st.walFile, st.walSentType, collection, key,
                                 block.Vector, block.Keywords, block.Primary)),
                      collection, key, block,
                      CollAppendBlock(st.collections[collection], key, block, level))

\* VectorManager.DeleteKey: the set of outcomes (Collection.DeleteKey ranges
\* over a Go map when it moves the entry point).
VMDeleteKey(st, collection, key) ==
    IF ~Has(st.collections, collection)
    THEN {[err |-> "collection not found", st |-> st]}
    ELSE LET st1 == walLogged(st, 1,
                        LogDelete(st.walFile, st.walSentType, collection, key))
             del == CollDeleteKey(st.collections[collection], key)
         IN  IF WalFault(st, 1) # "ok" THEN {[err |-> "WAL logging failed", st |-> st1]}
             ELSE IF del.err # "" THEN {[err |-> del.err, st |-> st1]}
             ELSE {[err |-> "", st |-> [st1 EXCEPT !.collections[collection] = c]] :
                      c \in del.colls}

\* VectorManager.GetBlock.
VMGetBlock(st, collection, key, index) ==
    IF ~Has(st.collections, collection)
    THEN [err |-> "collection not found", block |-> NoBlock]
    ELSE LET coll    == st.collections[collection]
             b       == getBucketID(key)
             payload == ManagerGet(st.shardFiles[b], st.Buckets[b], key, index)
             dec     == DecodeEntry(payload.bytes)
             vid     == BytesToVectorID(dec.entry.SecondaryData)
             vec     == GetVectorByID(coll, vid.id)
         IN  IF ~ContainsKey(coll, key) THEN [err |-> "key not found", block |-> NoBlock]
             ELSE IF payload.err # "" THEN [err |-> payload.err, block |-> NoBlock]
             ELSE IF dec.err # "" THEN [err |-> "failed to decode entry", block |-> NoBlock]
             ELSE [err   |-> "",
                   block |-> [Primary  |-> dec.entry.PrimaryData,
                              Keywords |-> dec.entry.Keywords,
                              Vector   |-> IF Len(dec.entry.SecondaryData) = 8 /\ vec.ok
                                           THEN vec.vector ELSE << >>]]

\* VectorManager.GetKeyLength.
VMGetKeyLength(st, collection, key) ==
    IF ~Has(st.collections, collection)
    THEN [err |-> "collection not found", length |-> 0]
    ELSE CollGetKeyLength(st.collections[collection], key)

\* "if err == nil { results[i].Block = block }"
withBlock(result, got) ==
    [Key      |-> result.Key,
     Index    |-> result.Index,
     Distance |-> result.Distance,
     VectorID |-> result.VectorID,
     HasBlock |-> got.err = "",
     Block    |-> got.block]

\* The loop of Search and SearchInKey that fetches the block of each result;
\* a result whose GetBlock fails keeps a nil Block.
RECURSIVE attachBlocks(_, _, _, _)
attachBlocks(st, collection, results, i) ==
    IF i > Len(results) THEN << >>
    ELSE <<withBlock(results[i],
                     VMGetBlock(st, collection, results[i].Key, results[i].Index))>>
         \o attachBlocks(st, collection, results, i + 1)

\* Search and SearchInKey after coll.Search has returned r.
searchFound(st, collection, filter, r) ==
    [err     |-> r.err,
     results |-> IF r.err # "" THEN << >> ELSE attachBlocks(st, collection, r.results, 1),
     filter  |-> filter,
     bitset  |-> SearchBitset(st.collections[collection], filter)]

\* What Search and SearchInKey do with their filter.  filter and bitset are
\* not returned by the code: the model keeps them with the results.
searchWith(st, collection, query, topK, filter) ==
    IF ~Has(st.collections, collection)
    THEN [err |-> "collection not found", results |-> << >>, filter |-> filter,
          bitset |-> NilBitSet]
    ELSE searchFound(st, collection, filter,
                     CollSearch(st.collections[collection], query, topK, filter))

\* VectorManager.Search.  Every keyword mode of the model is the exact one.
VMSearch(st, collection, query, topK, keywords) ==
    searchWith(st, collection, query, topK,
               [isNil |-> FALSE, Keywords |-> keywords, Keys |-> << >>])

\* VectorManager.SearchInKey.
VMSearchInKey(st, collection, key, query, topK) ==
    searchWith(st, collection, query, topK,
               [isNil |-> FALSE, Keywords |-> << >>, Keys |-> <<key>>])

\* Collection.KeywordSearch: the keys of the forward-index entries of the
\* ids in the keyword bitset, collected in a Go map and so returned in any
\* order.  The set of key lists it can return; nil for an empty bitset.
collKeywordKeys(docMap, bitset) ==
    IF bitset.isNil \/ BitSetIsEmpty(bitset) THEN {<< >>}
    ELSE Orderings({docMap[id].Key : id \in {v \in bitset.bits : Has(docMap, v)}})

CollKeywordSearch(c, keywords) ==
    collKeywordKeys(c.DocMap, SearchExact(c.KeywordIndex, keywords))

\* VectorManager.KeywordSearch.  Every keyword mode of the model is the
\* exact one.  The set of answers it can give.
VMKeywordSearch(st, collection, keywords) ==
    IF ~Has(st.collections, collection)
    THEN {[err |-> "collection not found", keys |-> << >>]}
    ELSE {[err |-> "", keys |-> ks] :
              ks \in CollKeywordSearch(st.collections[collection], keywords)}

\* Manager.BatchAppend writing the entries in the order ks: each record goes
\* to the end of its bucket's file and its offset to the bucket's index.
\* There is no check of the key's length here.  When File.Write fails for a
\* key, the goroutine of its bucket stops: neither that record nor a later
\* one of the bucket is written.
RECURSIVE batchWrite(_, _, _, _)
batchWrite(st, entries, ks, i) ==
    IF i > Len(ks) THEN st
    ELSE IF \E j \in 1..i : /\ ks[j] \in st.io.shard
                            /\ getBucketID(ks[j]) = getBucketID(ks[i])
    THEN batchWrite(st, entries, ks, i + 1)
    ELSE batchWrite(
             [st EXCEPT
                 !.shardFiles[getBucketID(ks[i])] = @ \o ShardRecord(ks[i], entries[ks[i]]),
                 !.Buckets[getBucketID(ks[i])] =
                     Put(@, ks[i],
                         Append(IF Has(@, ks[i]) THEN @[ks[i]] ELSE << >>,
                                Len(st.shardFiles[getBucketID(ks[i])])))],
             entries, ks, i + 1)

\* Manager.BatchAppend: entries is a Go map from key to payload, ranged over
\* in any order and grouped by bucket; the buckets are written by goroutines
\* that share no file.  The set of states it can leave.
ManagerBatchAppend(st, entries) ==
    {batchWrite(st, entries, ks, 1) : ks \in Orderings(DOMAIN entries)}

\* One item of phase 1 of VectorManager.BatchAppendBlocks after EncodeEntry
\* has returned encoded: batchEntries[key] = encoded, successes[i] = true.
\* indexes keeps the index coll.AppendBlock gave the item (the code does
\* not return it).
batchEncoded(acc, st2, key, index, encoded) ==
    IF encoded.err # ""
    THEN [st |-> st2, entries |-> acc.entries,
          successes |-> Append(acc.successes, FALSE),
          indexes |-> Append(acc.indexes, index)]
    ELSE [st |-> st2, entries |-> Put(acc.entries, key, encoded.bytes),
          successes |-> Append(acc.successes, TRUE),
          indexes |-> Append(acc.indexes, index)]

\* ... after coll.GetBlockVectorID has returned vid.
batchIdentified(acc, st2, key, block, index, vid) ==
    IF vid.err # ""
    THEN [st |-> st2, entries |-> acc.entries,
          successes |-> Append(acc.successes, FALSE),
          indexes |-> Append(acc.indexes, index)]
    ELSE batchEncoded(acc, st2, key, index,
             EncodeEntry([Key           |-> key,
                          Keywords      |-> block.Keywords,
                          PrimaryData   |-> block.Primary,
                          SecondaryData |-> VectorIDToBytes(vid.id),
                          Flags         |-> [DataType   |-> IF Len(block.Vector) > 0
                                                            THEN 1 ELSE 0,
                                             Compressed |-> FALSE,
                                             Tombstone  |-> FALSE]]))

\* ... after vm.wal.LogAdd has left st1 and coll.AppendBlock has returned app.
batchMinted(acc, st1, collection, key, block, app) ==
    IF app.err # ""
    THEN [st |-> st1, entries |-> acc.entries,
          successes |-> Append(acc.successes, FALSE),
          indexes |-> Append(acc.indexes, 0)]
    ELSE batchIdentified(acc, [st1 EXCEPT !.collections[collection] = app.coll],
                         key, block, app.index,
                         GetBlockVectorID(app.coll, key, app.index))

\* A batch that goes on with an item whose WAL record could not be logged.
batchLoggedApplies(acc, st1, collection, key, block, level, fault) ==
    batchMinted(acc, st1, collection, key, block,
                CollAppendBlock(acc.st.collections[collection], key, block, level))

\* ... after vm.wal.LogAdd has left st1 and ended as fault: on an error the
\* item is passed over.
batchLogged(acc, st1, collection, key, block, level, fault) ==
    IF fault # "ok"
    THEN [st |-> st1, entries |-> acc.entries,
          successes |-> Append(acc.successes, FALSE),
          indexes |-> Append(acc.indexes, 0)]
    ELSE batchMinted(acc, st1, collection, key, block,
                     CollAppendBlock(acc.st.collections[collection], key, block, level))

\* Phase 1 of VectorManager.BatchAppendBlocks from item i on.
RECURSIVE batchItems(_, _, _, _, _, _)
batchItems(acc, collection, keys, blocks, level, i) ==
    IF i > Len(keys) THEN acc
    ELSE batchItems(
             batchLogged(acc,
                 walLogged(acc.st, i,
                     LogAdd(acc.st.walFile, acc.st.walSentType, collection, keys[i],
                            blocks[i].Vector, blocks[i].Keywords, blocks[i].Primary)),
                 collection, keys[i], blocks[i], level, WalFault(acc.st, i)),
             collection, keys, blocks, level, i + 1)

\* Phase 2 of VectorManager.BatchAppendBlocks.
batchStored(acc) ==
    {[err |-> IF DOMAIN acc.entries \cap acc.st.io.shard # {}
              THEN "batch storage write failed" ELSE "",
      successes |-> acc.successes, indexes |-> acc.indexes, st |-> s] :
         s \in IF DOMAIN acc.entries # {} THEN ManagerBatchAppend(acc.st, acc.entries)
               ELSE {acc.st}}

\* VectorManager.BatchAppendBlocks with the level randomLevel() draws.  The
\* set of outcomes.
VMBatchAppendBlocks(st, collection, keys, blocks, level) ==
    IF ~Has(st.collections, collection)
    THEN {[err |-> "collection not found", successes |-> << >>, indexes |-> << >>,
           st |-> st]}
    ELSE batchStored(batchItems([st |-> st, entries |-> EmptyMap, successes |-> << >>,
                                 indexes |-> << >>],
                                collection, keys, blocks, level, 1))

\* Collection.ListKeys ranges over KeyLengths, a Go map: the set of lists it
\* can return.
CollListKeys(c) == Orderings(DOMAIN c.KeyLengths)

\* VectorManager.ListKeys: the set of answers it can give.
VMListKeys(st, collection) ==
    IF ~Has(st.collections, collection)
    THEN {[err |-> "collection not found", keys |-> << >>]}
    ELSE {[err |-> "", keys |-> ks] : ks \in CollListKeys(st.collections[collection])}

\* VectorManager.ContainsKey.
VMContainsKey(st, collection, key) ==
    IF ~Has(st.collections, collection)
    THEN [err |-> "collection not found", exists |-> FALSE]
    ELSE [err |-> "", exists |-> ContainsKey(st.collections[collection], key)]

\* RepairManager.CheckConsistency on collection c: the ids the graph has and
\* the forward index has not, and the other way round.
CheckConsistency(c) ==
    [TotalVectors |-> Cardinality(DOMAIN c.DocMap),
     OrphanIDs    |-> DOMAIN c.HNSWIndex.nodes \ DOMAIN c.DocMap,
     MissingIDs   |-> DOMAIN c.DocMap \ DOMAIN c.HNSWIndex.nodes]

\* The loop of RepairManager.RepairOrphans over report.OrphanIDs in the
\* order ids: the graphs it can leave (Delete's error is only logged).
RECURSIVE repairDelete(_, _, _)
repairDelete(hws, ids, i) ==
    IF i > Len(ids) THEN hws
    ELSE repairDelete(UNION {HNSWDelete(hw, ids[i]).hws : hw \in hws}, ids, i + 1)

\* RepairManager.RepairOrphans on collection c with the report CheckConsistency
\* gave: nothing to do without orphans; else the orphans leave the graph, in
\* the order the Go map of the nodes yielded them, and the graph is saved.
\* The set of outcomes.
CollRepairOrphans(c, report) ==
    IF report.OrphanIDs = {} THEN {[saved |-> FALSE, coll |-> c]}
    ELSE {[saved |-> TRUE, coll |-> [c EXCEPT !.HNSWIndex = hw]] :
             hw \in UNION {repairDelete({c.HNSWIndex}, ids, 1) :
                              ids \in Orderings(report.OrphanIDs)}}

\* An UpdateBlock that writes the block to the end of the key's shard log.
VMUpdateBlockWrites(st, collection, key, index, block) ==
    [err |-> "",
     st  |-> [st EXCEPT !.shardFiles[getBucketID(key)] =
                            @ \o ShardRecord(key, block.Primary)]]

\* VectorManager.UpdateBlock: a stub.
VMUpdateBlock(st, collection, key, index, block) ==
    [err |-> "not implemented", st |-> st]

\* VectorManager.ReplaceBlock calls UpdateBlock.
VMReplaceBlock(st, collection, key, index, block) ==
    VMUpdateBlock(st, collection, key, index, block)

\* VectorManager.SnapshotCollection and CompactCollection: stubs.
VMSnapshotCollection(st, collection) ==
    [err |-> "not implemented", path |-> "", st |-> st]

VMCompactCollection(st, collection) ==
    [err |-> "not implemented", st |-> st]

\* VectorManager.recoverFromWAL over the entries Replay returned: every
\* entry goes through AppendBlock or DeleteKey again (and so is logged
\* again), and the first error ends the replay.  levels: the levels
\* randomLevel() may draw.  The set of states it can leave.
RECURSIVE recoverFromWAL(_, _, _, _)
RECURSIVE recoverNext(_, _, _, _)
recoverFromWAL(st, entries, i, levels) ==
    IF i > Len(entries) THEN {st}
    ELSE IF entries[i].OpType = WALOpAdd
         THEN UNION {recoverNext(
                         VMAppendBlock(st, entries[i].Collection, entries[i].Key,
                                       [Primary  |-> entries[i].Data,
                                        Vector   |-> entries[i].Vector,
                                        Keywords |-> entries[i].Keywords], l),
                         entries, i, levels) : l \in levels}
         ELSE IF entries[i].OpType = WALOpDelete
         THEN UNION {recoverNext(r, entries, i, levels) :
                        r \in VMDeleteKey(st, entries[i].Collection, entries[i].Key)}
         ELSE recoverFromWAL(st, entries, i + 1, levels)

\* "if err != nil { return err }" of recoverFromWAL after the entry at i.
recoverNext(r, entries, i, levels) ==
    IF r.err # "" THEN {r.st} ELSE recoverFromWAL(r.st, entries, i + 1, levels)

\* NewManager on one bucket: the saved index, or the index rebuilt from the
\* shard file (and then saved) when the index file cannot be loaded.
NewManagerIndex(file, idxFile) ==
    IF GobLoad("map[string][]int64", idxFile).err = ""
    THEN GobLoad("map[string][]int64", idxFile).value
    ELSE rebuildIndex(file, EmptyMap, 0)

NewManagerIdxFile(file, idxFile) ==
    IF GobLoad("map[string][]int64", idxFile).err = ""
    THEN idxFile
    ELSE GobSave("map[string][]int64", rebuildIndex(file, EmptyMap, 0))

\* NewCollectionManager / loadExistingCollections: the sets of loaded
\* collections it can build from the directories that hold a meta.json.
loadExistingCollections(dirs) ==
    {f \in [DOMAIN dirs -> UNION {loadCollection(dirs[n]) : n \in DOMAIN dirs}] :
        \A n \in DOMAIN dirs : f[n] \in loadCollection(dirs[n])}

\* NewVectorManager on the files of the data directory: the set of states
\* it can open in.
NewVectorManager(shards, idxs, dirs, wal, levels) ==
    UNION {UNION {recoverFromWAL([collections |-> colls,
                                  Buckets     |-> [b \in BucketIDs |->
                                                      NewManagerIndex(shards[b], idxs[b])],
                                  walSentType |-> FALSE,
                                  shardFiles  |-> shards,
                                  walFile     |-> wal,
                                  io          |-> NoFault],
                                 entries, 1, levels) :
                     entries \in Replay(wal)} :
              colls \in loadExistingCollections(dirs)}

\* ------------------------------------------------------------------------
\* Inputs of the model
\* ------------------------------------------------------------------------

CollNames == {"A", "B"}

\* The keys "k1" and "k2".
Keys == {<<107, 49>>, <<107, 50>>}

\* The keyword "Foo".
KwFoo == <<70, 111, 111>>

\* The primary bytes of the n-th call: "p" and the byte n.
PrimaryOf(n) == <<112, n>>

\* The blocks a client passes in its n-th call: without a vector, with a
\* vector of the collection's dimension and a keyword, and with a vector of
\* another dimension.
BlocksOf(n) ==
    {[Primary |-> PrimaryOf(n), Vector |-> << >>, Keywords |-> << >>],
     [Primary |-> PrimaryOf(n), Vector |-> <<n>>, Keywords |-> <<KwFoo>>],
     [Primary |-> PrimaryOf(n), Vector |-> <<n, n>>, Keywords |-> << >>]}

\* The block indexes a client may ask for.
Indexes == 0..(MaxOps + 1)

\* The levels randomLevel() draws in the specifications that do not look at
\* the shape of the graph.
FlatLevels == {0}

\* ------------------------------------------------------------------------
\* State
\* ------------------------------------------------------------------------

VARIABLES
    running,      \* a VectorManager is open
    collections,  \* CollectionManager.collections
    Buckets,      \* Manager.Buckets[b].Index
    walSentType,  \* the WAL's encoder has sent the type description
    shardFiles,   \* data/waddle_shard_NNN.db
    idxFiles,     \* data/waddle_shard_NNN.db.idx
    collDirs,     \* indexes/<name>/{meta.json, vectors.hnsw, keywords.inv, doc_map.bin}
    walFile,      \* vector.wal
    hist,         \* the client calls made so far, with what they returned
    life,         \* closes and crashes so far, and Len(hist) at the last Close
    snap,         \* what the clients could read just before the first crash
    conc,         \* the AppendBlock calls that goroutines are in the middle of
    Requests,     \* transaction.Manager.Requests, the dispatch queue
    handlers,     \* the connection handlers (Server.handleConnection)
    workers,      \* the goroutines of Manager.handle that run
    lastSearch,   \* the search call just made and what it returned
    unit          \* a component used on its own: its state, the call made, the answer

memVars == <<collections, Buckets, walSentType>>

diskVars == <<shardFiles, idxFiles, collDirs, walFile>>

vars == <<running, collections, Buckets, walSentType, shardFiles, idxFiles, collDirs,
          walFile, hist, life, snap, conc, Requests, handlers, workers, lastSearch,
          unit>>

\* The parts of the state a specification does not use stay as they are.
idleLife == UNCHANGED <<life, snap, unit>>

idleConc == UNCHANGED conc

idleDispatch == UNCHANGED <<Requests, handlers, workers>>

idleSearch == UNCHANGED lastSearch

St == [collections |-> collections, Buckets |-> Buckets, walSentType |-> walSentType,
       shardFiles |-> shardFiles, walFile |-> walFile, io |-> NoFault]

SetSt(st) ==
    /\ collections' = st.collections
    /\ Buckets' = st.Buckets
    /\ walSentType' = st.walSentType
    /\ shardFiles' = st.shardFiles
    /\ walFile' = st.walFile

NoSnap == [set |-> FALSE]

\* The goroutines that call AppendBlock at the same time.
Tids == 1..NumThreads

IdleCall == [pc |-> "idle"]

\* The connections, one handler goroutine each.
Hids == 1..NumHandlers

IdleHandler == [pc |-> "read", n |-> 0]

NoSearch == [called |-> FALSE]

NoUnit == [called |-> FALSE]

\* NewVectorManager on an empty data directory.
InitManager ==
    /\ running = TRUE
    /\ collections = EmptyMap
    /\ Buckets = [b \in BucketIDs |-> EmptyMap]
    /\ walSentType = FALSE
    /\ shardFiles = [b \in BucketIDs |-> << >>]
    /\ idxFiles = [b \in BucketIDs |-> GobSave("map[string][]int64", EmptyMap)]
    /\ collDirs = EmptyMap
    /\ walFile = << >>
    /\ hist = << >>
    /\ life = [closes |-> 0, crashes |-> 0, mark |-> 0]
    /\ snap = NoSnap
    /\ conc = [started |-> 0, call |-> [t \in Tids |-> IdleCall]]
    /\ Requests = << >>
    /\ handlers = [h \in Hids |-> IdleHandler]
    /\ workers = EmptyMap
    /\ lastSearch = NoSearch

Init ==
    /\ InitManager
    /\ unit = NoUnit

\* CollectionManager.CreateCollection without the check for an existing
\* collection of the name.
createCollectionOverwrites(name, dimensions, metric) ==
    /\ running
    /\ LET config == [Name |-> name, Dimensions |-> dimensions, Metric |-> metric]
       IN  IF ValidateCollectionConfig(config) # ""
           THEN UNCHANGED <<collections, collDirs>>
           ELSE /\ collDirs' = Put(collDirs, name,
                                   [meta |-> SaveCollectionMeta(config), hnsw |-> NoFile,
                                    kw |-> NoFile, docmap |-> NoFile])
                /\ collections' = Put(collections, name, NewCollection(config))
    /\ UNCHANGED <<running, Buckets, walSentType, shardFiles, idxFiles, walFile>>

\* VectorManager.CreateCollection -> CollectionManager.CreateCollection.
createCollection(name, dimensions, metric) ==
    /\ running
    /\ LET config == [Name |-> name, Dimensions |-> dimensions, Metric |-> metric]
       IN  IF Has(collections, name) \/ ValidateCollectionConfig(config) # ""
           THEN UNCHANGED <<collections, collDirs>>
           ELSE /\ collDirs' = Put(collDirs, name,
                                   [meta |-> SaveCollectionMeta(config), hnsw |-> NoFile,
                                    kw |-> NoFile, docmap |-> NoFile])
                /\ collections' = Put(collections, name, NewCollection(config))
    /\ UNCHANGED <<running, Buckets, walSentType, shardFiles, idxFiles, walFile>>

\* A client's CreateCollection call whose answer is not looked at.
CreateCollection(name, dimensions, metric) ==
    /\ createCollection(name, dimensions, metric)
    /\ UNCHANGED hist

\* AppendBlock returns r to the client.
appendReturns(collection, key, block, r) ==
    /\ SetSt(r.st)
    /\ hist' = Append(hist, [op |-> "append", collection |-> collection,
                             key |-> key, block |-> block, err |-> r.err,
                             index |-> r.index, vectorID |-> r.vectorID])

\* A client's AppendBlock call.
AppendBlock(collection, key, block, level) ==
    /\ running
    /\ appendReturns(collection, key, block,
                     VMAppendBlock(St, collection, key, block, level))
    /\ UNCHANGED <<running, idxFiles, collDirs>>

\* A client's DeleteKey call.
DeleteKey(collection, key) ==
    /\ running
    /\ \E r \in VMDeleteKey(St, collection, key) :
           /\ SetSt(r.st)
           /\ hist' = Append(hist, [op |-> "delete", collection |-> collection,
                                    key |-> key, block |-> NoBlock, err |-> r.err,
                                    index |-> 0, vectorID |-> 0])
    /\ UNCHANGED <<running, idxFiles, collDirs>>

\* One session of one process: collections are created, blocks appended and
\* keys deleted.
Next ==
    \/ \E name \in CollNames :
           /\ CreateCollection(name, 1, "l2")
           /\ idleLife /\ idleConc /\ idleDispatch /\ idleSearch
    \/ \E c \in CollNames, k \in Keys, b \in BlocksOf(Len(hist) + 1) :
           /\ Len(hist) < MaxOps
           /\ AppendBlock(c, k, b, 0)
           /\ idleLife /\ idleConc /\ idleDispatch /\ idleSearch
    \/ \E c \in CollNames, k \in Keys :
           /\ Len(hist) < MaxOps
           /\ DeleteKey(c, k)
           /\ idleLife /\ idleConc /\ idleDispatch /\ idleSearch

Spec == Init /\ [][Next]_vars

\* ------------------------------------------------------------------------
\* The life cycle: Close, a crash, and the next NewVectorManager
\* ------------------------------------------------------------------------

\* What a client can read: the length of every key and every block.
Obs(st) ==
    [c \in CollNames |-> [k \in Keys |->
        [length |-> VMGetKeyLength(st, c, k),
         blocks |-> [i \in Indexes |-> VMGetBlock(st, c, k, i)]]]]

\* VectorManager.Close: Checkpoint (every collection saved, the WAL
\* truncated), wal.Close, collections.Close (every collection saved again),
\* Manager.Close (every bucket index saved).
Close ==
    /\ running
    /\ life.closes + life.crashes < MaxRestarts
    /\ running' = FALSE
    /\ collDirs' = [n \in DOMAIN collDirs |->
                       IF Has(collections, n) THEN CollSave(collections[n], collDirs[n])
                       ELSE collDirs[n]]
    /\ walFile' = << >>
    /\ idxFiles' = [b \in BucketIDs |-> GobSave("map[string][]int64", Buckets[b])]
    /\ collections' = EmptyMap
    /\ Buckets' = [b \in BucketIDs |-> EmptyMap]
    /\ walSentType' = FALSE
    /\ life' = [life EXCEPT !.closes = @ + 1, !.mark = Len(hist)]
    /\ snap' = NoSnap
    /\ UNCHANGED <<shardFiles, hist, unit>>
    /\ idleConc /\ idleDispatch /\ idleSearch

\* The process stops without Close: what is in memory is lost, the files
\* stay as they are.  snap keeps what the clients could read just before
\* the first crash after their last call, and whether every call since the
\* last checkpoint had succeeded.
Crash ==
    /\ running
    /\ life.closes + life.crashes < MaxRestarts
    /\ running' = FALSE
    /\ collections' = EmptyMap
    /\ Buckets' = [b \in BucketIDs |-> EmptyMap]
    /\ walSentType' = FALSE
    /\ life' = [life EXCEPT !.crashes = @ + 1]
    /\ snap' = IF snap.set THEN snap
               ELSE [set |-> TRUE,
                     ok  |-> \A i \in (life.mark + 1)..Len(hist) : hist[i].err = "",
                     obs |-> Obs(St)]
    /\ UNCHANGED <<diskVars, hist, unit>>
    /\ idleConc /\ idleDispatch /\ idleSearch

\* NewVectorManager on the files the last process left.
Open ==
    /\ ~running
    /\ running' = TRUE
    /\ \E st \in NewVectorManager(shardFiles, idxFiles, collDirs, walFile, FlatLevels) :
           SetSt(st)
    /\ idxFiles' = [b \in BucketIDs |-> NewManagerIdxFile(shardFiles[b], idxFiles[b])]
    /\ UNCHANGED <<collDirs, hist, life, snap, unit>>
    /\ idleConc /\ idleDispatch /\ idleSearch

\* The sessions of SpecRecovery use one key.
RecoveryKeys == {<<107, 49>>}

NextRecovery ==
    \/ \E name \in CollNames :
           /\ CreateCollection(name, 1, "l2")
           /\ snap' = NoSnap
           /\ UNCHANGED <<life, unit>>
           /\ idleConc /\ idleDispatch /\ idleSearch
    \/ \E c \in CollNames, k \in RecoveryKeys, b \in BlocksOf(Len(hist) + 1) :
           /\ Len(hist) < MaxOps
           /\ AppendBlock(c, k, b, 0)
           /\ snap' = NoSnap
           /\ UNCHANGED <<life, unit>>
           /\ idleConc /\ idleDispatch /\ idleSearch
    \/ \E c \in CollNames, k \in RecoveryKeys :
           /\ Len(hist) < MaxOps
           /\ DeleteKey(c, k)
           /\ snap' = NoSnap
           /\ UNCHANGED <<life, unit>>
           /\ idleConc /\ idleDispatch /\ idleSearch
    \/ Close
    \/ Crash
    \/ Open

SpecRecovery == Init /\ [][NextRecovery]_vars

\* ------------------------------------------------------------------------
\* Goroutines inside VectorManager.AppendBlock at the same time.  The method
\* takes no lock of its own: WAL.log holds WAL.mu, Collection.AppendBlock
\* holds Collection.mu, Collection.GetBlockVectorID holds it for reading,
\* Manager.Append holds the bucket's WriteLock.  Each of them is one step;
\* between two of them any other goroutine may take its steps.
\* ------------------------------------------------------------------------

\* The collection the goroutines append to.
ConcCollection == "A"

\* What a call that ends writes to hist.
Returned(c, err, index) ==
    [op |-> "append", collection |-> c.collection, key |-> c.key, block |-> c.block,
     err |-> err, index |-> index, vectorID |-> c.vectorID]

\* GetCollection and vm.wal.LogAdd.  A collection is never removed here, so
\* a GetCollection that finds it commutes with the steps up to LogAdd.
ConcLogAdd(t, key, block) ==
    /\ running
    /\ conc.call[t].pc = "idle"
    /\ LET c == [pc |-> "logged", collection |-> ConcCollection, key |-> key,
                 block |-> block, index |-> 0, vectorID |-> 0]
       IN  IF ~Has(collections, ConcCollection)
           THEN /\ hist' = Append(hist, Returned(c, "collection not found", 0))
                /\ conc' = [conc EXCEPT !.started = @ + 1]
                /\ UNCHANGED <<walFile, walSentType>>
           ELSE /\ walFile' = LogAdd(walFile, walSentType, ConcCollection, key,
                                     block.Vector, block.Keywords, block.Primary)
                /\ walSentType' = TRUE
                /\ conc' = [conc EXCEPT !.started = @ + 1, !.call[t] = c]
                /\ UNCHANGED hist
    /\ UNCHANGED <<running, collections, Buckets, shardFiles, idxFiles, collDirs>>

\* coll.AppendBlock has returned app to goroutine t.
concAppended(t, c, app) ==
    IF app.err # ""
    THEN /\ hist' = Append(hist, Returned(c, app.err, 0))
         /\ conc' = [conc EXCEPT !.call[t] = IdleCall]
         /\ UNCHANGED collections
    ELSE /\ collections' = [collections EXCEPT ![c.collection] = app.coll]
         /\ conc' = [conc EXCEPT !.call[t] = [c EXCEPT !.pc = "appended",
                                                       !.index = app.index]]
         /\ UNCHANGED hist

\* coll.AppendBlock: the index and the vector id are given out.
ConcCollAppend(t, level) ==
    /\ conc.call[t].pc = "logged"
    /\ concAppended(t, conc.call[t],
                    CollAppendBlock(collections[conc.call[t].collection],
                                    conc.call[t].key, conc.call[t].block, level))
    /\ UNCHANGED <<running, Buckets, walSentType, shardFiles, idxFiles, collDirs, walFile>>

\* coll.GetBlockVectorID.
ConcGetVectorID(t) ==
    /\ conc.call[t].pc = "appended"
    /\ LET c   == conc.call[t]
           vid == GetBlockVectorID(collections[c.collection], c.key, c.index)
       IN  IF vid.err # ""
           THEN /\ hist' = Append(hist, Returned(c,
                                "failed to retrieve vector ID after append", 0))
                /\ conc' = [conc EXCEPT !.call[t] = IdleCall]
           ELSE /\ conc' = [conc EXCEPT !.call[t] = [c EXCEPT !.pc = "identified",
                                                              !.vectorID = vid.id]]
                /\ UNCHANGED hist
    /\ UNCHANGED <<running, collections, Buckets, walSentType, shardFiles, idxFiles,
                   collDirs, walFile>>

\* EncodeEntry and vm.Manager.Append, and the return to the caller.
ConcManagerAppend(t) ==
    /\ conc.call[t].pc = "identified"
    /\ LET c       == conc.call[t]
           entry   == [Key           |-> c.key,
                       Keywords      |-> c.block.Keywords,
                       PrimaryData   |-> c.block.Primary,
                       SecondaryData |-> VectorIDToBytes(c.vectorID),
                       Flags         |-> [DataType   |-> IF Len(c.block.Vector) > 0
                                                         THEN 1 ELSE 0,
                                          Compressed |-> FALSE,
                                          Tombstone  |-> FALSE]]
           encoded == EncodeEntry(entry)
           b       == getBucketID(c.key)
           put     == ManagerAppend(shardFiles[b], Buckets[b], c.key, encoded.bytes)
       IN  IF encoded.err # ""
           THEN /\ hist' = Append(hist, Returned(c, "failed to encode entry", 0))
                /\ UNCHANGED <<shardFiles, Buckets>>
           ELSE IF put.err # ""
           THEN /\ hist' = Append(hist, Returned(c, "storage append failed", c.index))
                /\ UNCHANGED <<shardFiles, Buckets>>
           ELSE /\ hist' = Append(hist, Returned(c, "", c.index))
                /\ shardFiles' = [shardFiles EXCEPT ![b] = put.file]
                /\ Buckets' = [Buckets EXCEPT ![b] = put.index]
    /\ conc' = [conc EXCEPT !.call[t] = IdleCall]
    /\ UNCHANGED <<running, collections, walSentType, idxFiles, collDirs, walFile>>

\* The calls the goroutines make on one collection.
NextConc ==
    \/ /\ CreateCollection(ConcCollection, 1, "l2")
       /\ idleLife /\ idleConc /\ idleDispatch /\ idleSearch
    \/ \E t \in Tids, k \in Keys, b \in BlocksOf(conc.started + 1) :
           /\ conc.started < MaxOps
           /\ ConcLogAdd(t, k, b)
           /\ idleLife /\ idleDispatch /\ idleSearch
    \/ \E t \in Tids :
           ConcCollAppend(t, 0) /\ idleLife /\ idleDispatch /\ idleSearch
    \/ \E t \in Tids :
           ConcGetVectorID(t) /\ idleLife /\ idleDispatch /\ idleSearch
    \/ \E t \in Tids :
           ConcManagerAppend(t) /\ idleLife /\ idleDispatch /\ idleSearch

SpecConc == Init /\ [][NextConc]_vars

\* ------------------------------------------------------------------------
\* The request pipeline: Server.handleConnection puts a RequestContext on
\* Manager.Requests and waits on its RespChan; Manager.dispatch starts one
\* goroutine of Manager.handle per request.
\* ------------------------------------------------------------------------

\* make(chan types.RequestContext, 100)
QueueDepth == 100

\* The request ids the clients write into their requests.
ReqIDs == {"r1", "r2"}

\* A RespChan is made per request: the n-th one of handler h is <<h, n>>.
ChanIds == Hids \X (1..MaxRequests)

\* The key the requests of the pipeline work on.
DispatchKey == <<107, 49>>

\* The requests a client sends as its n-th: operation and parameters.
RequestsOf(n) ==
    {[Operation |-> "OpCreateCollection",
      Params    |-> [Name |-> "A", Dimensions |-> 1, Metric |-> m]] :
        m \in {"l2"}}
    \cup {[Operation |-> "OpAppendBlock",
           Params    |-> [Collection |-> "A", Key |-> DispatchKey, Block |-> b]] :
        b \in {x \in BlocksOf(n) : Len(x.Vector) <= 1}}
    \cup {[Operation |-> "OpGetKeyLength",
           Params    |-> [Collection |-> "A", Key |-> DispatchKey]]}

NoResponse == [ReqID |-> "", Success |-> FALSE, Error |-> "", Data |-> 0]

\* handleConnection reads a request off the connection and builds ctx.
HandlerRead(h, reqID, request) ==
    /\ handlers[h].pc = "read"
    /\ handlers[h].n < MaxRequests
    /\ handlers' = [handlers EXCEPT ![h] =
           [pc   |-> "built",
            n    |-> handlers[h].n + 1,
            ctx  |-> [ReqID     |-> reqID,
                      Operation |-> request.Operation,
                      Params    |-> request.Params,
                      RespChan  |-> <<h, handlers[h].n + 1>>],
            resp |-> NoResponse]]
    /\ UNCHANGED <<Requests, workers>>

\* The read fails (the client has closed the connection): the handler ends.
HandlerReturn(h) ==
    /\ handlers[h].pc = "read"
    /\ handlers' = [handlers EXCEPT ![h].pc = "returned"]
    /\ UNCHANGED <<Requests, workers>>

\* s.TxManager.Requests <- ctx, were the send to go through whatever the
\* channel holds.
HandlerSendAlways(h) ==
    /\ handlers[h].pc = "built"
    /\ Requests' = Append(Requests, handlers[h].ctx)
    /\ handlers' = [handlers EXCEPT ![h].pc = "sent"]
    /\ UNCHANGED workers

\* s.TxManager.Requests <- ctx
HandlerSend(h) ==
    /\ handlers[h].pc = "built"
    /\ Len(Requests) < QueueDepth
    /\ Requests' = Append(Requests, handlers[h].ctx)
    /\ handlers' = [handlers EXCEPT ![h].pc = "sent"]
    /\ UNCHANGED workers

\* The handler reaches <-ctx.RespChan and parks there.
HandlerWait(h) ==
    /\ handlers[h].pc = "sent"
    /\ handlers' = [handlers EXCEPT ![h].pc = "waiting"]
    /\ UNCHANGED <<Requests, workers>>

\* The handler writes the response it received to the connection and goes
\* back to reading; ctx and respCtx are variables of the loop body.
HandlerWrite(h) ==
    /\ handlers[h].pc = "received"
    /\ handlers' = [handlers EXCEPT ![h] = [pc |-> "read", n |-> handlers[h].n]]
    /\ UNCHANGED <<Requests, workers>>

\* Manager.dispatch: for req := range tm.Requests { go tm.handle(req) }
Dispatch ==
    /\ Len(Requests) > 0
    /\ workers' = Put(workers, Head(Requests).RespChan,
                      [pc |-> "handle", req |-> Head(Requests), resp |-> NoResponse])
    /\ Requests' = Tail(Requests)
    /\ UNCHANGED handlers

\* The metric Manager.handle passes to CreateCollection.
HandleMetric(metric) ==
    IF metric = "cos" THEN "cosine" ELSE IF metric = "ip" THEN "ip" ELSE "l2"

\* The error of CollectionManager.CreateCollection.
CreateCollectionError(name, dimensions, metric) ==
    IF Has(collections, name) THEN "collection already exists"
    ELSE ValidateCollectionConfig([Name |-> name, Dimensions |-> dimensions,
                                   Metric |-> metric])

\* Manager.handle up to its select: the Vector Manager method of the
\* operation runs and resp is filled.
Handle(w) ==
    /\ Has(workers, w)
    /\ workers[w].pc = "handle"
    /\ LET req == workers[w].req
           p   == req.Params
           answer(err, data) ==
               workers' = [workers EXCEPT ![w] =
                   [pc   |-> "select",
                    req  |-> req,
                    resp |-> [ReqID |-> req.ReqID, Success |-> err = "",
                              Error |-> err, Data |-> data]]]
           stub(r) ==
               /\ SetSt(r.st)
               /\ answer(r.err, 0)
               /\ UNCHANGED <<running, idxFiles, collDirs, hist>>
       IN  CASE req.Operation = "OpCreateCollection" ->
                   /\ CreateCollection(p.Name, p.Dimensions, HandleMetric(p.Metric))
                   /\ answer(CreateCollectionError(p.Name, p.Dimensions,
                                                   HandleMetric(p.Metric)), 0)
             [] req.Operation = "OpAppendBlock" ->
                   /\ AppendBlock(p.Collection, p.Key, p.Block, 0)
                   /\ answer(hist'[Len(hist')].err, 0)
             [] req.Operation = "OpGetKeyLength" ->
                   /\ answer(VMGetKeyLength(St, p.Collection, p.Key).err,
                             VMGetKeyLength(St, p.Collection, p.Key).length)
                   /\ UNCHANGED <<running, collections, Buckets, walSentType, shardFiles,
                                  idxFiles, collDirs, walFile, hist>>
             [] req.Operation = "OpUpdateBlock" ->
                   stub(VMUpdateBlock(St, p.Collection, p.Key, p.Index, p.Block))
             [] req.Operation = "OpReplaceBlock" ->
                   stub(VMReplaceBlock(St, p.Collection, p.Key, p.Index, p.Block))
             [] req.Operation = "OpSnapshotCollection" ->
                   stub(VMSnapshotCollection(St, p.Collection))
             [] req.Operation = "OpCompactCollection" ->
                   stub(VMCompactCollection(St, p.Name))
             [] OTHER ->
                   /\ answer("operation not implemented", 0)
                   /\ UNCHANGED <<running, collections, Buckets, walSentType, shardFiles,
                                  idxFiles, collDirs, walFile, hist>>
    /\ UNCHANGED <<Requests, handlers>>

\* select { case req.RespChan <- resp: default: } and the end of the
\* goroutine.  RespChan has no buffer: the send case is ready only when
\* the handler is parked in its receive, otherwise default runs.
HandleSelect(w) ==
    /\ Has(workers, w)
    /\ workers[w].pc = "select"
    /\ LET h == w[1] IN
       IF handlers[h].pc = "waiting" /\ handlers[h].ctx.RespChan = w
       THEN handlers' = [handlers EXCEPT ![h].pc = "received",
                                         ![h].resp = workers[w].resp]
       ELSE UNCHANGED handlers
    /\ workers' = Del(workers, w)
    /\ UNCHANGED Requests

\* The steps that leave the Vector Manager alone.
idleStorage ==
    UNCHANGED <<running, collections, Buckets, walSentType, shardFiles, idxFiles,
                collDirs, walFile, hist>>

\* The steps of one handler after it has read a request.
HandlerStep(h) ==
    /\ HandlerSend(h) \/ HandlerWait(h) \/ HandlerWrite(h)
    /\ idleStorage /\ idleLife /\ idleConc /\ idleSearch

\* The step of the dispatcher.
DispatchStep == Dispatch /\ idleStorage /\ idleLife /\ idleConc /\ idleSearch

\* The steps of one goroutine of Manager.handle.
HandleStep(w) ==
    \/ Handle(w) /\ idleLife /\ idleConc /\ idleSearch
    \/ HandleSelect(w) /\ idleStorage /\ idleLife /\ idleConc /\ idleSearch

NextDispatch ==
    \/ \E h \in Hids, id \in ReqIDs :
           \E r \in RequestsOf(handlers[h].n + 1) :
               HandlerRead(h, id, r) /\ idleStorage /\ idleLife /\ idleConc /\ idleSearch
    \/ \E h \in Hids :
           HandlerReturn(h) /\ idleStorage /\ idleLife /\ idleConc /\ idleSearch
    \/ \E h \in Hids :
           HandlerSend(h) /\ idleStorage /\ idleLife /\ idleConc /\ idleSearch
    \/ \E h \in Hids :
           HandlerWait(h) /\ idleStorage /\ idleLife /\ idleConc /\ idleSearch
    \/ \E h \in Hids :
           HandlerWrite(h) /\ idleStorage /\ idleLife /\ idleConc /\ idleSearch
    \/ DispatchStep
    \/ \E w \in ChanIds :
           Handle(w) /\ idleLife /\ idleConc /\ idleSearch
    \/ \E w \in ChanIds :
           HandleSelect(w) /\ idleStorage /\ idleLife /\ idleConc /\ idleSearch

\* The Go scheduler runs every goroutine that can take a step; a client
\* need not send another request.
FairDispatch ==
    /\ WF_vars(DispatchStep)
    /\ \A h \in Hids : WF_vars(HandlerStep(h))
    /\ \A w \in ChanIds : WF_vars(HandleStep(w))

SpecDispatch == Init /\ [][NextDispatch]_vars /\ FairDispatch

\* ------------------------------------------------------------------------
\* Searches: one collection is filled with vectors and keywords, keys are
\* deleted, and clients search it.
\* ------------------------------------------------------------------------

SearchCollection == "A"

\* The keyword "bar".
KwBar == <<98, 97, 114>>

\* The components of the one-dimensional vectors and queries.
Components == {1, 2}

\* The levels randomLevel() draws.
SearchLevels == {0, 1}

\* The blocks of the n-th append: a vector without a keyword and another
\* vector with the keyword.
SearchBlocksOf(n) ==
    {[Primary |-> PrimaryOf(n), Vector |-> <<1>>, Keywords |-> << >>],
     [Primary |-> PrimaryOf(n), Vector |-> <<2>>, Keywords |-> <<KwFoo>>]}

\* The keyword lists of the searches: none, a keyword blocks carry (in
\* another case), a keyword no block carries.
SearchKeywords == {<< >>, <<ToLower(KwFoo)>>, <<KwBar>>}

\* A client's Search call.
Search(collection, query, topK, keywords) ==
    /\ running
    /\ lastSearch' = [called |-> TRUE, topK |-> topK, query |-> query,
                      out |-> VMSearch(St, collection, query, topK, keywords)]
    /\ UNCHANGED <<running, collections, Buckets, walSentType, shardFiles, idxFiles,
                   collDirs, walFile, hist>>

\* A client's SearchInKey call.
SearchInKey(collection, key, query, topK) ==
    /\ running
    /\ lastSearch' = [called |-> TRUE, topK |-> topK, query |-> query,
                      out |-> VMSearchInKey(St, collection, key, query, topK)]
    /\ UNCHANGED <<running, collections, Buckets, walSentType, shardFiles, idxFiles,
                   collDirs, walFile, hist>>

NextSearch ==
    \/ \E metric \in {"l2", "ip"} :
           /\ CreateCollection(SearchCollection, 1, metric)
           /\ idleLife /\ idleConc /\ idleDispatch /\ lastSearch' = NoSearch
    \/ \E k \in Keys, b \in SearchBlocksOf(Len(hist) + 1), level \in SearchLevels :
           /\ Len(hist) < MaxSearchOps
           /\ AppendBlock(SearchCollection, k, b, level)
           /\ idleLife /\ idleConc /\ idleDispatch /\ lastSearch' = NoSearch
    \/ \E k \in Keys :
           /\ Len(hist) < MaxSearchOps
           /\ DeleteKey(SearchCollection, k)
           /\ idleLife /\ idleConc /\ idleDispatch /\ lastSearch' = NoSearch
    \/ \E q \in Components, topK \in 0..MaxTopK, kws \in SearchKeywords :
           /\ Search(SearchCollection, <<q>>, topK, kws)
           /\ idleLife /\ idleConc /\ idleDispatch
    \/ \E k \in Keys, q \in Components, topK \in 0..MaxTopK :
           /\ SearchInKey(SearchCollection, k, <<q>>, topK)
           /\ idleLife /\ idleConc /\ idleDispatch

SpecSearch == Init /\ [][NextSearch]_vars

\* ------------------------------------------------------------------------
\* Keyword searches over a changing collection
\* ------------------------------------------------------------------------

\* The number of appends and deletes before the searches.
MaxKeywordOps == 3

\* A client's KeywordSearch call.
KeywordSearch(collection, keywords) ==
    /\ running
    /\ \E r \in VMKeywordSearch(St, collection, keywords) :
           lastSearch' = [called |-> TRUE, keywords |-> keywords,
                          err |-> r.err, keys |-> r.keys]
    /\ UNCHANGED <<running, collections, Buckets, walSentType, shardFiles, idxFiles,
                   collDirs, walFile, hist>>

\* One collection is created, blocks with and without the keyword are
\* appended, keys are deleted, and keyword searches, searches with a
\* keyword filter and searches in a key are answered.
NextKeyword ==
    \/ /\ CreateCollection(SearchCollection, 1, "l2")
       /\ idleLife /\ idleConc /\ idleDispatch /\ lastSearch' = NoSearch
    \/ \E k \in Keys, b \in SearchBlocksOf(Len(hist) + 1) :
           /\ Len(hist) < MaxKeywordOps
           /\ AppendBlock(SearchCollection, k, b, 0)
           /\ idleLife /\ idleConc /\ idleDispatch /\ lastSearch' = NoSearch
    \/ \E k \in Keys :
           /\ Len(hist) < MaxKeywordOps
           /\ DeleteKey(SearchCollection, k)
           /\ idleLife /\ idleConc /\ idleDispatch /\ lastSearch' = NoSearch
    \/ \E kws \in SearchKeywords :
           /\ KeywordSearch(SearchCollection, kws)
           /\ idleLife /\ idleConc /\ idleDispatch
    \/ \E q \in Components, topK \in 1..MaxTopK, kws \in SearchKeywords \ {<< >>} :
           /\ Search(SearchCollection, <<q>>, topK, kws)
           /\ idleLife /\ idleConc /\ idleDispatch
    \/ \E k \in Keys, q \in Components, topK \in 1..MaxTopK :
           /\ SearchInKey(SearchCollection, k, <<q>>, topK)
           /\ idleLife /\ idleConc /\ idleDispatch

SpecKeyword == Init /\ [][NextKeyword]_vars

\* ------------------------------------------------------------------------

\* Batches of appends
\* ------------------------------------------------------------------------

\* The collection of the batches.
BatchCollection == "A"

\* The number of items of a batch, and of single and batch calls.
MaxBatch == 2

MaxBatchOps == 2

\* The batches a client passes in its n-th call: one to MaxBatch items, each
\* a key and a block with its own primary bytes.
BatchesOf(n) ==
    UNION {{[keys |-> ks, blocks |-> bs] :
               ks \in [1..len -> Keys],
               bs \in {q \in [1..len -> UNION {BlocksOf(MaxBatch * n + i) : i \in 1..len}] :
                          \A i \in 1..len : q[i] \in BlocksOf(MaxBatch * n + i)}} :
           len \in 1..MaxBatch}

\* AppendBlock called for the items one by one, in batch order.
RECURSIVE oneByOne(_, _, _, _, _, _)
oneByOne(st, collection, keys, blocks, level, i) ==
    IF i > Len(keys) THEN st
    ELSE oneByOne(VMAppendBlock(st, collection, keys[i], blocks[i], level).st,
                  collection, keys, blocks, level, i + 1)

\* A client's BatchAppendBlocks call.  snap keeps the batch, its answer and
\* what the clients could read had the items been appended one by one.
BatchAppendBlocks(collection, keys, blocks, level) ==
    /\ running
    /\ \E r \in VMBatchAppendBlocks(St, collection, keys, blocks, level) :
           /\ SetSt(r.st)
           /\ hist' = Append(hist, [op |-> "batch", collection |-> collection,
                                    key |-> keys, block |-> blocks, err |-> r.err,
                                    index |-> r.indexes, vectorID |-> 0])
           /\ snap' = [set |-> TRUE, keys |-> keys, blocks |-> blocks,
                       err |-> r.err, successes |-> r.successes,
                       indexes |-> r.indexes,
                       obs |-> Obs(oneByOne(St, collection, keys, blocks, level, 1))]
    /\ UNCHANGED <<running, idxFiles, collDirs, life, unit>>

\* One collection is created and blocks are appended to it one at a time and
\* in batches.
NextBatch ==
    \/ /\ CreateCollection(BatchCollection, 1, "l2")
       /\ UNCHANGED <<life, unit>> /\ snap' = NoSnap
       /\ idleConc /\ idleDispatch /\ idleSearch
    \/ \E k \in Keys, b \in BlocksOf(MaxBatch * Len(hist) + 1) :
           /\ Len(hist) < MaxBatchOps
           /\ AppendBlock(BatchCollection, k, b, 0)
           /\ UNCHANGED <<life, unit>> /\ snap' = NoSnap
           /\ idleConc /\ idleDispatch /\ idleSearch
    \/ \E batch \in BatchesOf(Len(hist)) :
           /\ Len(hist) < MaxBatchOps
           /\ BatchAppendBlocks(BatchCollection, batch.keys, batch.blocks, 0)
           /\ idleConc /\ idleDispatch /\ idleSearch

SpecBatch == Init /\ [][NextBatch]_vars

\* ------------------------------------------------------------------------

\* One client whose calls go step by step
\* ------------------------------------------------------------------------

\* The number of calls of the client.
MaxStepOps == 2

\* The goroutine of the client.
StepThread == CHOOSE t \in Tids : \A u \in Tids : t <= u

\* VectorManager.DeleteKey: GetCollection and vm.wal.LogDelete.
ConcLogDelete(t, key) ==
    /\ running
    /\ conc.call[t].pc = "idle"
    /\ IF ~Has(collections, ConcCollection)
       THEN /\ hist' = Append(hist, [op |-> "delete", collection |-> ConcCollection,
                                     key |-> key, block |-> NoBlock,
                                     err |-> "collection not found",
                                     index |-> 0, vectorID |-> 0])
            /\ conc' = [conc EXCEPT !.started = @ + 1]
            /\ UNCHANGED <<walFile, walSentType>>
       ELSE /\ walFile' = LogDelete(walFile, walSentType, ConcCollection, key)
            /\ walSentType' = TRUE
            /\ conc' = [conc EXCEPT !.started = @ + 1,
                                    !.call[t] = [pc |-> "delete logged", key |-> key]]
            /\ UNCHANGED hist
    /\ UNCHANGED <<running, collections, Buckets, shardFiles, idxFiles, collDirs>>

\* VectorManager.DeleteKey: coll.DeleteKey and the return to the caller.
ConcCollDelete(t) ==
    /\ conc.call[t].pc = "delete logged"
    /\ \E c \in CollDeleteKey(collections[ConcCollection], conc.call[t].key).colls :
           collections' = [collections EXCEPT ![ConcCollection] = c]
    /\ hist' = Append(hist, [op |-> "delete", collection |-> ConcCollection,
                             key |-> conc.call[t].key, block |-> NoBlock,
                             err |-> CollDeleteKey(collections[ConcCollection],
                                                   conc.call[t].key).err,
                             index |-> 0, vectorID |-> 0])
    /\ conc' = [conc EXCEPT !.call[t] = IdleCall]
    /\ UNCHANGED <<running, Buckets, walSentType, shardFiles, idxFiles, collDirs, walFile>>

\* VectorManager.BatchAppendBlocks: GetCollection and the empty successes
\* and batchEntries.
ConcBatchBegin(t, keys, blocks) ==
    /\ running
    /\ conc.call[t].pc = "idle"
    /\ IF ~Has(collections, ConcCollection)
       THEN /\ hist' = Append(hist, [op |-> "batch", collection |-> ConcCollection,
                                     key |-> keys, block |-> blocks,
                                     err |-> "collection not found",
                                     index |-> << >>, vectorID |-> 0])
            /\ conc' = [conc EXCEPT !.started = @ + 1]
       ELSE /\ conc' = [conc EXCEPT
                           !.started = @ + 1,
                           !.call[t] = [pc |-> "batch item", keys |-> keys,
                                        blocks |-> blocks, i |-> 1,
                                        entries |-> EmptyMap, successes |-> << >>,
                                        indexes |-> << >>]]
            /\ UNCHANGED hist
    /\ UNCHANGED <<running, collections, Buckets, walSentType, shardFiles, idxFiles,
                   collDirs, walFile>>

\* Phase 1, item i: vm.wal.LogAdd.
ConcBatchLogAdd(t) ==
    /\ conc.call[t].pc = "batch item"
    /\ conc.call[t].i <= Len(conc.call[t].keys)
    /\ walFile' = LogAdd(walFile, walSentType, ConcCollection,
                         conc.call[t].keys[conc.call[t].i],
                         conc.call[t].blocks[conc.call[t].i].Vector,
                         conc.call[t].blocks[conc.call[t].i].Keywords,
                         conc.call[t].blocks[conc.call[t].i].Primary)
    /\ walSentType' = TRUE
    /\ conc' = [conc EXCEPT !.call[t].pc = "batch logged"]
    /\ UNCHANGED <<running, collections, Buckets, shardFiles, idxFiles, collDirs, hist>>

\* Phase 1, item i, after batchMinted has returned r: the rest of the loop
\* body.
concBatchMinted(t, r) ==
    /\ collections' = r.st.collections
    /\ conc' = [conc EXCEPT !.call[t].pc = "batch item",
                            !.call[t].i = @ + 1,
                            !.call[t].entries = r.entries,
                            !.call[t].successes = r.successes,
                            !.call[t].indexes = r.indexes]

\* Phase 1, item i: coll.AppendBlock, coll.GetBlockVectorID, EncodeEntry and
\* batchEntries[key] = encoded.
ConcBatchCollAppend(t, level) ==
    /\ conc.call[t].pc = "batch logged"
    /\ concBatchMinted(t,
           batchMinted(conc.call[t], St, ConcCollection,
                       conc.call[t].keys[conc.call[t].i],
                       conc.call[t].blocks[conc.call[t].i],
                       CollAppendBlock(collections[ConcCollection],
                                       conc.call[t].keys[conc.call[t].i],
                                       conc.call[t].blocks[conc.call[t].i], level)))
    /\ UNCHANGED <<running, Buckets, walSentType, shardFiles, idxFiles, collDirs,
                   walFile, hist>>

\* Phase 2: vm.Manager.BatchAppend and the return to the caller.
ConcBatchManagerAppend(t) ==
    /\ conc.call[t].pc = "batch item"
    /\ conc.call[t].i > Len(conc.call[t].keys)
    /\ \E r \in batchStored([st |-> St, entries |-> conc.call[t].entries,
                             successes |-> conc.call[t].successes,
                             indexes |-> conc.call[t].indexes]) :
           /\ shardFiles' = r.st.shardFiles
           /\ Buckets' = r.st.Buckets
           /\ hist' = Append(hist, [op |-> "batch", collection |-> ConcCollection,
                                    key |-> conc.call[t].keys,
                                    block |-> conc.call[t].blocks, err |-> r.err,
                                    index |-> r.indexes, vectorID |-> 0])
    /\ conc' = [conc EXCEPT !.call[t] = IdleCall]
    /\ UNCHANGED <<running, collections, walSentType, idxFiles, collDirs, walFile>>

\* One client creates the collection and appends, appends in batches and
\* deletes, one call after the other.
NextSteps ==
    \/ /\ CreateCollection(ConcCollection, 1, "l2")
       /\ idleLife /\ idleConc /\ idleDispatch /\ idleSearch
    \/ \E k \in Keys, b \in BlocksOf(MaxBatch * conc.started + 1) :
           /\ conc.started < MaxStepOps
           /\ ConcLogAdd(StepThread, k, b)
           /\ idleLife /\ idleDispatch /\ idleSearch
    \/ ConcCollAppend(StepThread, 0) /\ idleLife /\ idleDispatch /\ idleSearch
    \/ ConcGetVectorID(StepThread) /\ idleLife /\ idleDispatch /\ idleSearch
    \/ ConcManagerAppend(StepThread) /\ idleLife /\ idleDispatch /\ idleSearch
    \/ \E k \in Keys :
           /\ conc.started < MaxStepOps
           /\ ConcLogDelete(StepThread, k)
           /\ idleLife /\ idleDispatch /\ idleSearch
    \/ ConcCollDelete(StepThread) /\ idleLife /\ idleDispatch /\ idleSearch
    \/ \E batch \in BatchesOf(conc.started) :
           /\ conc.started < MaxStepOps
           /\ ConcBatchBegin(StepThread, batch.keys, batch.blocks)
           /\ idleLife /\ idleDispatch /\ idleSearch
    \/ ConcBatchLogAdd(StepThread) /\ idleLife /\ idleDispatch /\ idleSearch
    \/ ConcBatchCollAppend(StepThread, 0) /\ idleLife /\ idleDispatch /\ idleSearch
    \/ ConcBatchManagerAppend(StepThread) /\ idleLife /\ idleDispatch /\ idleSearch

SpecSteps == Init /\ [][NextSteps]_vars

\* ------------------------------------------------------------------------

\* Orphan repair
\* ------------------------------------------------------------------------

\* The collection that is repaired.
RepairCollection == "A"

\* The number of appends, deletes and repairs.
MaxRepairOps == 4

\* A call of RepairManager.RepairOrphans.
RepairOrphans(collection) ==
    /\ running
    /\ IF ~Has(collections, collection)
       THEN /\ hist' = Append(hist, [op |-> "repair", collection |-> collection,
                                     key |-> << >>, block |-> NoBlock,
                                     err |-> "collection not found",
                                     index |-> 0, vectorID |-> 0])
            /\ UNCHANGED <<collections, collDirs>>
       ELSE /\ \E r \in CollRepairOrphans(collections[collection],
                                          CheckConsistency(collections[collection])) :
                   /\ collections' = [collections EXCEPT ![collection] = r.coll]
                   /\ collDirs' = IF r.saved
                                  THEN [collDirs EXCEPT ![collection].hnsw =
                                            HNSWSave(r.coll.HNSWIndex)]
                                  ELSE collDirs
            /\ hist' = Append(hist, [op |-> "repair", collection |-> collection,
                                     key |-> << >>, block |-> NoBlock, err |-> "",
                                     index |-> 0, vectorID |-> 0])
    /\ UNCHANGED <<running, Buckets, walSentType, shardFiles, idxFiles, walFile>>

\* The collection is created, blocks are appended, keys deleted and orphans
\* repaired.
NextRepair ==
    \/ /\ CreateCollection(RepairCollection, 1, "l2")
       /\ idleLife /\ idleConc /\ idleDispatch /\ idleSearch
    \/ \E k \in Keys, b \in BlocksOf(Len(hist) + 1) :
           /\ Len(hist) < MaxRepairOps
           /\ AppendBlock(RepairCollection, k, b, 0)
           /\ idleLife /\ idleConc /\ idleDispatch /\ idleSearch
    \/ \E k \in Keys :
           /\ Len(hist) < MaxRepairOps
           /\ DeleteKey(RepairCollection, k)
           /\ idleLife /\ idleConc /\ idleDispatch /\ idleSearch
    \/ /\ Len(hist) < MaxRepairOps
       /\ RepairOrphans(RepairCollection)
       /\ idleLife /\ idleConc /\ idleDispatch /\ idleSearch

SpecRepair == Init /\ [][NextRepair]_vars

\* ------------------------------------------------------------------------

\* Collections created, deleted and created again
\* ------------------------------------------------------------------------

\* The collection, and the dimensions and metrics its creators ask for.
ConfigCollection == "A"

ConfigDimensions == {1, 2}

ConfigMetrics == {"l2", "cosine"}

\* The number of calls.
MaxConfigOps == 4

\* A client's CreateCollection call and its answer.
CreateCollectionAnswered(name, dimensions, metric) ==
    /\ createCollection(name, dimensions, metric)
    /\ hist' = Append(hist, [op |-> "create", collection |-> name,
                             dimensions |-> dimensions, metric |-> metric,
                             err |-> CreateCollectionError(name, dimensions, metric)])

\* VectorManager.DeleteCollection -> CollectionManager.DeleteCollection:
\* coll.Close saves the collection's files, then the collection leaves the
\* map and its directory is removed.
DeleteCollection(name) ==
    /\ running
    /\ IF ~Has(collections, name)
       THEN /\ hist' = Append(hist, [op |-> "delete collection", collection |-> name,
                                     err |-> "collection not found"])
            /\ UNCHANGED <<collections, collDirs>>
       ELSE /\ hist' = Append(hist, [op |-> "delete collection", collection |-> name,
                                     err |-> ""])
            /\ collections' = Del(collections, name)
            /\ collDirs' = Del(collDirs, name)
    /\ UNCHANGED <<running, Buckets, walSentType, shardFiles, idxFiles, walFile>>

\* The collection is created, appended to, deleted and created again, and
\* the process is closed, stopped and started again.
NextConfig ==
    \/ \E d \in ConfigDimensions, m \in ConfigMetrics :
           /\ Len(hist) < MaxConfigOps
           /\ CreateCollectionAnswered(ConfigCollection, d, m)
           /\ idleLife /\ idleConc /\ idleDispatch /\ idleSearch
    \/ \E k \in RecoveryKeys, b \in BlocksOf(Len(hist) + 1) :
           /\ Len(hist) < MaxConfigOps
           /\ AppendBlock(ConfigCollection, k, b, 0)
           /\ idleLife /\ idleConc /\ idleDispatch /\ idleSearch
    \/ /\ Len(hist) < MaxConfigOps
       /\ DeleteCollection(ConfigCollection)
       /\ idleLife /\ idleConc /\ idleDispatch /\ idleSearch
    \/ Close
    \/ Crash
    \/ Open

SpecConfig == Init /\ [][NextConfig]_vars

\* ------------------------------------------------------------------------

\* Requests for operations that are not implemented
\* ------------------------------------------------------------------------

\* The operations the Vector Manager has only a stub for, and one the server
\* passes on and Manager.handle has no case for.
StubOperations ==
    {"OpUpdateBlock", "OpReplaceBlock", "OpSnapshotCollection", "OpCompactCollection",
     "OpGetRelativeBlocks"}

\* The requests a client sends as its n-th: the collection is created, a
\* block appended, and the operations above asked for.
StubRequestsOf(n) ==
    {[Operation |-> "OpCreateCollection",
      Params    |-> [Name |-> "A", Dimensions |-> 1, Metric |-> "l2"]],
     [Operation |-> "OpAppendBlock",
      Params    |-> [Collection |-> "A", Key |-> DispatchKey,
                     Block |-> [Primary |-> PrimaryOf(n), Vector |-> <<n>>,
                                Keywords |-> <<KwFoo>>]]],
     [Operation |-> "OpUpdateBlock",
      Params    |-> [Collection |-> "A", Key |-> DispatchKey, Index |-> 0,
                     Block |-> [Primary |-> PrimaryOf(n), Vector |-> <<n>>,
                                Keywords |-> << >>]]],
     [Operation |-> "OpReplaceBlock",
      Params    |-> [Collection |-> "A", Key |-> DispatchKey, Index |-> 0,
                     Block |-> [Primary |-> PrimaryOf(n), Vector |-> <<n>>,
                                Keywords |-> << >>]]],
     [Operation |-> "OpSnapshotCollection", Params |-> [Collection |-> "A"]],
     [Operation |-> "OpCompactCollection", Params |-> [Name |-> "A"]],
     [Operation |-> "OpGetRelativeBlocks",
      Params    |-> [Collection |-> "A", Key |-> DispatchKey, Index |-> 0]]}

NextStubs ==
    \/ \E h \in Hids, r \in StubRequestsOf(Len(hist) + 1) :
           HandlerRead(h, "r1", r) /\ idleStorage /\ idleLife /\ idleConc /\ idleSearch
    \/ \E h \in Hids :
           HandlerReturn(h) /\ idleStorage /\ idleLife /\ idleConc /\ idleSearch
    \/ \E h \in Hids :
           HandlerSend(h) /\ idleStorage /\ idleLife /\ idleConc /\ idleSearch
    \/ \E h \in Hids :
           HandlerWait(h) /\ idleStorage /\ idleLife /\ idleConc /\ idleSearch
    \/ \E h \in Hids :
           HandlerWrite(h) /\ idleStorage /\ idleLife /\ idleConc /\ idleSearch
    \/ DispatchStep
    \/ \E w \in ChanIds :
           Handle(w) /\ idleLife /\ idleConc /\ idleSearch
    \/ \E w \in ChanIds :
           HandleSelect(w) /\ idleStorage /\ idleLife /\ idleConc /\ idleSearch

SpecStubs == Init /\ [][NextStubs]_vars

\* ------------------------------------------------------------------------

\* The entry codec on its own: an entry is encoded, a byte of the encoded
\* entry may be changed, and the bytes are decoded
\* ------------------------------------------------------------------------

\* The keyword lists a caller passes: none, lower and upper case, a dash and
\* a digit, two keywords, and a keyword with a space (invalid).
CodecKeywords ==
    {<< >>, <<KwFoo>>, <<<<97>>>>, <<<<88, 45, 49>>, KwFoo>>, <<<<97, 32, 98>>>>}

\* Primary data: empty, one byte, two bytes.
CodecPrimaries == {<< >>, <<0>>, <<255, 65>>}

\* Secondary data: none, or the eight bytes of a vector ID.
CodecSecondaries == {<< >>, VectorIDToBytes(1), VectorIDToBytes(258)}

\* Flags: binary or vector data.
CodecFlags ==
    {[DataType |-> d, Compressed |-> FALSE, Tombstone |-> FALSE] : d \in {0, 1}}

CodecEntries ==
    [Flags : CodecFlags, Key : Keys, Keywords : CodecKeywords,
     PrimaryData : CodecPrimaries, SecondaryData : CodecSecondaries]

\* The positions of an encoded entry at which a byte may be changed.
MaxEncodedLen == 40

\* The values a changed byte may take.
CodecBytes == {0, 1, 97, 255}

InitCodec ==
    /\ InitManager
    /\ \E e \in CodecEntries :
           unit = [called |-> FALSE, entry |-> e, pc |-> "entry"]

idleManager ==
    UNCHANGED <<running, collections, Buckets, walSentType, shardFiles, idxFiles,
                collDirs, walFile, hist, life, snap, conc, Requests, handlers, workers,
                lastSearch>>

\* EncodeEntry(entry).
CodecEncode ==
    /\ unit.pc = "entry"
    /\ unit' = [called |-> TRUE, entry |-> unit.entry, pc |-> "encoded",
                err |-> EncodeEntry(unit.entry).err,
                bytes |-> EncodeEntry(unit.entry).bytes,
                changed |-> FALSE]
    /\ idleManager

\* One byte after the header of the encoded entry takes another value.
CodecChange(pos, value) ==
    /\ unit.pc = "encoded"
    /\ unit.err = ""
    /\ ~unit.changed
    /\ pos > unit.bytes[1]
    /\ pos <= Len(unit.bytes)
    /\ unit.bytes[pos] # value
    /\ unit' = [unit EXCEPT !.bytes[pos] = value, !.changed = TRUE]
    /\ idleManager

\* DecodeEntry(bytes).
CodecDecode ==
    /\ unit.pc = "encoded"
    /\ unit.err = ""
    /\ unit' = [called |-> TRUE, entry |-> unit.entry, pc |-> "decoded",
                bytes |-> unit.bytes, changed |-> unit.changed,
                err |-> DecodeEntry(unit.bytes).err,
                out |-> DecodeEntry(unit.bytes).entry]
    /\ idleManager

NextCodec ==
    \/ CodecEncode
    \/ \E pos \in 1..MaxEncodedLen, value \in CodecBytes :
           CodecChange(pos, value)
    \/ CodecDecode

SpecCodec == InitCodec /\ [][NextCodec]_vars

\* ------------------------------------------------------------------------

\* The HNSW graph on its own: vectors are added and deleted by ID
\* ------------------------------------------------------------------------

GraphDimensions == 1

\* The IDs a caller passes.
GraphIDs == 1..3

\* The vectors a caller passes: of the graph's dimension, and longer.
GraphVectors == {<<0>>, <<2>>, <<1, 1>>}

\* The levels randomLevel() draws.
GraphLevels == {0, 1}

\* The calls made on one graph.
MaxGraphOps == 3

InitGraph ==
    /\ InitManager
    /\ unit = [called |-> FALSE, n |-> 0, hw |-> NewHNSWWrapper(GraphDimensions, "l2")]

\* hw.Add(vectorID, vector).
GraphAdd(vectorID, vector, level) ==
    /\ unit.n < MaxGraphOps
    /\ unit' = [called |-> TRUE, n |-> unit.n + 1, op |-> "add", id |-> vectorID,
                vector |-> vector, before |-> unit.hw,
                err |-> HNSWAdd(unit.hw, vectorID, vector, level).err,
                hw  |-> HNSWAdd(unit.hw, vectorID, vector, level).hw]
    /\ idleManager

\* hw.Delete(vectorID).
GraphDelete(vectorID) ==
    /\ unit.n < MaxGraphOps
    /\ \E hw \in HNSWDelete(unit.hw, vectorID).hws :
           unit' = [called |-> TRUE, n |-> unit.n + 1, op |-> "delete", id |-> vectorID,
                    vector |-> << >>, before |-> unit.hw,
                    err |-> HNSWDelete(unit.hw, vectorID).err,
                    hw  |-> hw]
    /\ idleManager

NextGraph ==
    \/ \E id \in GraphIDs, v \in GraphVectors, l \in GraphLevels : GraphAdd(id, v, l)
    \/ \E id \in GraphIDs : GraphDelete(id)

SpecGraph == InitGraph /\ [][NextGraph]_vars

\* ------------------------------------------------------------------------

\* Calls that are refused or meet I/O errors
\* ------------------------------------------------------------------------

FaultCollection == "A"

\* The keys of the single calls: "k1" and the empty key.
FaultKeys == {<<107, 49>>, << >>}

\* The keys of the batches: "k1", "k2", and "l0", which shares its shard
\* with "k1".
FaultBatchKeys == Keys \cup {<<108, 48>>}

\* The blocks of the n-th call: a vector with a keyword, a vector with a
\* keyword that has a space in it, and a vector of another dimension.
FaultBlocksOf(n) ==
    {[Primary |-> PrimaryOf(n), Vector |-> <<1>>, Keywords |-> <<KwFoo>>],
     [Primary |-> PrimaryOf(n), Vector |-> <<2>>, Keywords |-> <<<<97, 32, 98>>>>],
     [Primary |-> PrimaryOf(n), Vector |-> <<n, n>>, Keywords |-> << >>]}

\* The I/O errors a call on key meets.
FaultsOf(key) ==
    {[wal |-> w, shard |-> s] : w \in {<< >>, <<"encode">>, <<"sync">>}, s \in {{}, {key}}}

\* The batches of the n-th call, of blocks without vector and keywords, and
\* the I/O errors each meets.
FaultBatchesOf(n) ==
    UNION {{[keys   |-> ks,
             blocks |-> [i \in 1..len |-> [Primary  |-> PrimaryOf(MaxBatch * n + i),
                                           Vector   |-> << >>,
                                           Keywords |-> << >>]],
             io     |-> [wal |-> w, shard |-> s]] :
               ks \in [1..len -> FaultBatchKeys],
               w \in [1..len -> {"ok", "sync"}],
               s \in SUBSET FaultBatchKeys} :
           len \in 1..MaxBatch}

\* The calls made once the collection has been created.
MaxFaultOps == 2

\* What the clients read of collection c: the length of every key, whether
\* it is there, the answers list_keys can give, the count, and the results
\* of the searches.
ReadBack(st, c) ==
    [length   |-> [k \in FaultKeys \cup FaultBatchKeys |-> VMGetKeyLength(st, c, k)],
     contains |-> [k \in FaultKeys \cup FaultBatchKeys |-> VMContainsKey(st, c, k)],
     keys     |-> VMListKeys(st, c),
     count    |-> IF Has(st.collections, c) THEN CollCount(st.collections[c]) ELSE 0,
     search   |-> [q \in Components |-> VMSearch(st, c, <<q>>, MaxTopK, << >>)]]

appendReturnsIO(collection, key, block, io, r) ==
    /\ SetSt(r.st)
    /\ hist' = Append(hist, [op |-> "append", collection |-> collection,
                             key |-> key, block |-> block, err |-> r.err,
                             index |-> r.index, vectorID |-> r.vectorID, io |-> io])
    /\ snap' = [set |-> TRUE, before |-> ReadBack(St, collection), st |-> St]

\* A client's AppendBlock call that meets the I/O errors io.
AppendBlockIO(collection, key, block, level, io) ==
    /\ running
    /\ appendReturnsIO(collection, key, block, io,
                       VMAppendBlock([St EXCEPT !.io = io], collection, key, block, level))
    /\ UNCHANGED <<running, idxFiles, collDirs>>

\* A client's DeleteKey call that meets the I/O errors io.
DeleteKeyIO(collection, key, io) ==
    /\ running
    /\ \E r \in VMDeleteKey([St EXCEPT !.io = io], collection, key) :
           /\ SetSt(r.st)
           /\ hist' = Append(hist, [op |-> "delete", collection |-> collection,
                                    key |-> key, block |-> NoBlock, err |-> r.err,
                                    index |-> 0, vectorID |-> 0, io |-> io])
    /\ snap' = [set |-> TRUE, before |-> ReadBack(St, collection), st |-> St]
    /\ UNCHANGED <<running, idxFiles, collDirs>>

\* A client's BatchAppendBlocks call that meets the I/O errors io.
BatchAppendBlocksIO(collection, keys, blocks, level, io) ==
    /\ running
    /\ \E r \in VMBatchAppendBlocks([St EXCEPT !.io = io], collection, keys, blocks, level) :
           /\ SetSt(r.st)
           /\ hist' = Append(hist, [op |-> "batch", collection |-> collection,
                                    key |-> keys, block |-> blocks, err |-> r.err,
                                    index |-> r.indexes, vectorID |-> 0,
                                    successes |-> r.successes, io |-> io])
    /\ snap' = [set |-> TRUE, before |-> ReadBack(St, collection), st |-> St]
    /\ UNCHANGED <<running, idxFiles, collDirs>>

NextFaults ==
    \/ /\ CreateCollection(FaultCollection, 1, "l2")
       /\ idleLife /\ idleConc /\ idleDispatch /\ idleSearch
    \/ \E k \in FaultKeys, b \in FaultBlocksOf(Len(hist) + 1) :
       \E io \in FaultsOf(k) :
           /\ Has(collections, FaultCollection)
           /\ Len(hist) < MaxFaultOps
           /\ AppendBlockIO(FaultCollection, k, b, 0, io)
           /\ UNCHANGED <<life, unit>> /\ idleConc /\ idleDispatch /\ idleSearch
    \/ \E k \in FaultKeys, io \in FaultsOf(<< >>) :
           /\ io.shard = {}
           /\ Has(collections, FaultCollection)
           /\ Len(hist) < MaxFaultOps
           /\ DeleteKeyIO(FaultCollection, k, io)
           /\ UNCHANGED <<life, unit>> /\ idleConc /\ idleDispatch /\ idleSearch
    \/ \E b \in FaultBatchesOf(Len(hist) + 1) :
           /\ b.io.shard \subseteq Range(b.keys)
           /\ Has(collections, FaultCollection)
           /\ Len(hist) < MaxFaultOps
           /\ BatchAppendBlocksIO(FaultCollection, b.keys, b.blocks, 0, b.io)
           /\ UNCHANGED <<life, unit>> /\ idleConc /\ idleDispatch /\ idleSearch

SpecFaults == Init /\ [][NextFaults]_vars

\* ------------------------------------------------------------------------

\* VectorManager.Checkpoint while another goroutine appends and deletes
\* ------------------------------------------------------------------------

CheckpointCollection == "A"

\* The appends and deletes of one behaviour.
MaxCheckpointOps == 2

\* The checkpoints of one behaviour.
MaxCheckpoints == 2

\* The files of a collection whose Save may fail.
SaveFaults == {{}, {"docmap"}, {"hnsw", "kw", "docmap"}}

\* vm.collections.ListCollections(): the goroutine has the names of the
\* collections it is going to save.
CheckpointBegin(t) ==
    /\ running
    /\ conc.call[t].pc = "idle"
    /\ conc.started < MaxCheckpoints
    /\ conc' = [conc EXCEPT !.started = @ + 1,
                            !.call[t] = [pc |-> "checkpoint", todo |-> DOMAIN collections]]
    /\ UNCHANGED <<running, collections, Buckets, walSentType, shardFiles, idxFiles,
                   collDirs, walFile, hist>>

\* One turn of the loop of Checkpoint: GetCollection(name) and coll.Save(),
\* whose error is dropped.
CheckpointSave(t, name, failed) ==
    /\ conc.call[t].pc = "checkpoint"
    /\ name \in conc.call[t].todo
    /\ collDirs' = IF Has(collections, name)
                   THEN [collDirs EXCEPT ![name] = CollSaveIO(collections[name], @, failed)]
                   ELSE collDirs
    /\ conc' = [conc EXCEPT !.call[t].todo = @ \ {name}]
    /\ UNCHANGED <<running, collections, Buckets, walSentType, shardFiles, idxFiles,
                   walFile, hist>>

\* vm.wal.Checkpoint(): the file is created anew, with a new encoder.
CheckpointTruncate(t) ==
    /\ conc.call[t].pc = "checkpoint"
    /\ conc.call[t].todo = {}
    /\ walFile' = << >>
    /\ walSentType' = FALSE
    /\ conc' = [conc EXCEPT !.call[t] = IdleCall]
    /\ UNCHANGED <<running, collections, Buckets, shardFiles, idxFiles, collDirs, hist>>

NextCheckpoint ==
    \/ /\ CreateCollection(CheckpointCollection, 1, "l2")
       /\ idleLife /\ idleConc /\ idleDispatch /\ idleSearch
    \/ \E k \in RecoveryKeys, b \in BlocksOf(Len(hist) + 1) :
           /\ Len(hist) < MaxCheckpointOps
           /\ AppendBlock(CheckpointCollection, k, b, 0)
           /\ idleLife /\ idleConc /\ idleDispatch /\ idleSearch
    \/ \E k \in RecoveryKeys :
           /\ Len(hist) < MaxCheckpointOps
           /\ DeleteKey(CheckpointCollection, k)
           /\ idleLife /\ idleConc /\ idleDispatch /\ idleSearch
    \/ CheckpointBegin(StepThread) /\ idleLife /\ idleDispatch /\ idleSearch
    \/ \E name \in CollNames, failed \in SaveFaults :
           CheckpointSave(StepThread, name, failed)
               /\ idleLife /\ idleDispatch /\ idleSearch
    \/ CheckpointTruncate(StepThread) /\ idleLife /\ idleDispatch /\ idleSearch

SpecCheckpoint == Init /\ [][NextCheckpoint]_vars

\* ------------------------------------------------------------------------

\* A collection is created, filled, deleted and created again
\* ------------------------------------------------------------------------

LifecycleCollection == "A"

\* The calls of one behaviour.
MaxLifecycleOps == 5

NextLifecycle ==
    \/ /\ Len(hist) < MaxLifecycleOps
       /\ CreateCollectionAnswered(LifecycleCollection, 1, "l2")
       /\ idleLife /\ idleConc /\ idleDispatch /\ idleSearch
    \/ \E k \in Keys, b \in {x \in BlocksOf(Len(hist) + 1) : Len(x.Vector) <= 1} :
           /\ Len(hist) < MaxLifecycleOps
           /\ AppendBlock(LifecycleCollection, k, b, 0)
           /\ idleLife /\ idleConc /\ idleDispatch /\ idleSearch
    \/ /\ Len(hist) < MaxLifecycleOps
       /\ DeleteCollection(LifecycleCollection)
       /\ idleLife /\ idleConc /\ idleDispatch /\ idleSearch

SpecLifecycle == Init /\ [][NextLifecycle]_vars

\* ------------------------------------------------------------------------

\* Create-collection requests through the dispatcher
\* ------------------------------------------------------------------------

\* The metric strings a client writes into a request: the three metrics,
\* the abbreviation Manager.handle looks for, and a string that names none.
RequestMetrics == {"l2", "cosine", "ip", "cos", "manhattan"}

CreateRequest(name, dimensions, metric) ==
    [Operation |-> "OpCreateCollection",
     Params    |-> [Name |-> name, Dimensions |-> dimensions, Metric |-> metric]]

CreateRequests ==
    {CreateRequest("A", 1, m) : m \in RequestMetrics}
        \cup {CreateRequest("", 1, "l2"), CreateRequest("A", 0, "l2")}

NextCreate ==
    \/ \E h \in Hids, r \in CreateRequests :
           HandlerRead(h, "r1", r) /\ idleStorage /\ idleLife /\ idleConc /\ idleSearch
    \/ \E h \in Hids :
           HandlerReturn(h) /\ idleStorage /\ idleLife /\ idleConc /\ idleSearch
    \/ \E h \in Hids :
           HandlerSend(h) /\ idleStorage /\ idleLife /\ idleConc /\ idleSearch
    \/ \E h \in Hids :
           HandlerWait(h) /\ idleStorage /\ idleLife /\ idleConc /\ idleSearch
    \/ \E h \in Hids :
           HandlerWrite(h) /\ idleStorage /\ idleLife /\ idleConc /\ idleSearch
    \/ DispatchStep
    \/ \E w \in ChanIds :
           Handle(w) /\ idleLife /\ idleConc /\ idleSearch
    \/ \E w \in ChanIds :
           HandleSelect(w) /\ idleStorage /\ idleLife /\ idleConc /\ idleSearch

SpecCreate == Init /\ [][NextCreate]_vars

\* ------------------------------------------------------------------------

\* Manager.Append and Manager.BatchAppend, step by step, on one shard
\* ------------------------------------------------------------------------
\* The goroutines call the storage Manager directly. A goroutine holds the
\* bucket's WriteLock from the step that writes to the step named in the
\* comments; IndexLock is held within one step.

\* Two keys of the same bucket.
ShardKeys == {<<107, 49>>, <<107, 65>>}

ShardBucket == getBucketID(<<107, 49>>)

\* The calls of one behaviour.
MaxShardOps == 3

\* The payload of the n-th call.
ShardPayload(n) == <<n>>

\* Whether some goroutine holds the WriteLock of the bucket.
WriteLocked == \E t \in Tids : conc.call[t].pc = "append written"

\* bucket.Index[key] = append(bucket.Index[key], offset)
IndexAppend(index, key, offset) ==
    Put(index, key, Append(IF Has(index, key) THEN index[key] ELSE << >>, offset))

\* Manager.Append up to IndexLock.Lock(): WriteLock is taken, the record is
\* written at the end of the file. WriteLock stays locked.
ShardAppendWrite(t, key) ==
    /\ conc.call[t].pc = "idle"
    /\ conc.started < MaxShardOps
    /\ ~WriteLocked
    /\ shardFiles' = [shardFiles EXCEPT ![ShardBucket] =
                          @ \o ShardRecord(key, ShardPayload(conc.started + 1))]
    /\ conc' = [conc EXCEPT !.started = @ + 1,
                            !.call[t] = [pc |-> "append written", key |-> key,
                                         offset |-> Len(shardFiles[ShardBucket])]]
    /\ UNCHANGED <<running, collections, Buckets, walSentType, idxFiles, collDirs,
                   walFile, hist>>

\* Manager.Append from IndexLock.Lock() to its return, where the deferred
\* WriteLock.Unlock() runs.
ShardAppendIndex(t) ==
    /\ conc.call[t].pc = "append written"
    /\ Buckets' = [Buckets EXCEPT ![ShardBucket] =
                       IndexAppend(@, conc.call[t].key, conc.call[t].offset)]
    /\ conc' = [conc EXCEPT !.call[t] = IdleCall]
    /\ UNCHANGED <<running, collections, walSentType, shardFiles, idxFiles, collDirs,
                   walFile, hist>>

\* The records of the keys ks written one after the other from offset on:
\* the file and newIndexEntries.
RECURSIVE shardBatchWrite(_, _, _, _, _)
shardBatchWrite(file, entries, offsets, ks, i) ==
    IF i > Len(ks) THEN [file |-> file, offsets |-> offsets]
    ELSE shardBatchWrite(file \o ShardRecord(ks[i], entries[ks[i]]), entries,
                         Put(offsets, ks[i], Len(file)), ks, i + 1)

\* The goroutine of Manager.BatchAppend for the bucket, from
\* WriteLock.Lock() to WriteLock.Unlock(): the prepared records are written
\* in the order the entries came out of the map.
ShardBatchWrite(t, keys) ==
    /\ conc.call[t].pc = "idle"
    /\ conc.started < MaxShardOps
    /\ ~WriteLocked
    /\ \E ks \in Orderings(keys) :
           LET entries == [k \in keys |-> ShardPayload(conc.started + 1)]
               written == shardBatchWrite(shardFiles[ShardBucket], entries, EmptyMap, ks, 1)
           IN /\ shardFiles' = [shardFiles EXCEPT ![ShardBucket] = written.file]
              /\ conc' = [conc EXCEPT !.started = @ + 1,
                                      !.call[t] = [pc |-> "batch written",
                                                   offsets |-> written.offsets]]
    /\ UNCHANGED <<running, collections, Buckets, walSentType, idxFiles, collDirs,
                   walFile, hist>>

\* The index of the bucket after "for k, off := range newIndexEntries".
RECURSIVE shardBatchIndex(_, _, _)
shardBatchIndex(index, offsets, todo) ==
    IF todo = {} THEN index
    ELSE LET k == CHOOSE x \in todo : TRUE
         IN shardBatchIndex(IndexAppend(index, k, offsets[k]), offsets, todo \ {k})

\* The goroutine of Manager.BatchAppend from IndexLock.Lock() to its end.
ShardBatchIndex(t) ==
    /\ conc.call[t].pc = "batch written"
    /\ Buckets' = [Buckets EXCEPT ![ShardBucket] =
                       shardBatchIndex(@, conc.call[t].offsets,
                                       DOMAIN conc.call[t].offsets)]
    /\ conc' = [conc EXCEPT !.call[t] = IdleCall]
    /\ UNCHANGED <<running, collections, walSentType, shardFiles, idxFiles, collDirs,
                   walFile, hist>>

NextShard ==
    \/ \E t \in Tids, k \in ShardKeys :
           ShardAppendWrite(t, k) /\ idleLife /\ idleDispatch /\ idleSearch
    \/ \E t \in Tids : ShardAppendIndex(t) /\ idleLife /\ idleDispatch /\ idleSearch
    \/ \E t \in Tids, keys \in SUBSET ShardKeys \ {{}} :
           ShardBatchWrite(t, keys) /\ idleLife /\ idleDispatch /\ idleSearch
    \/ \E t \in Tids : ShardBatchIndex(t) /\ idleLife /\ idleDispatch /\ idleSearch

SpecShard == Init /\ [][NextShard]_vars

\* ------------------------------------------------------------------------

\* NewManager on a shard file whose last record a crash has cut short
\* ------------------------------------------------------------------------

\* The records of a shard file.
MaxRecords == 2

\* The records written to the shard before the crash: keys of one bucket,
\* the i-th with payload <<i>>.
RebuildRecords ==
    UNION {[1..n -> ShardKeys] : n \in 1..MaxRecords}

\* The bytes of the records ks[1..n], one after the other.
RECURSIVE RecordBytes(_, _)
RecordBytes(ks, n) ==
    IF n = 0 THEN << >>
    ELSE RecordBytes(ks, n - 1) \o ShardRecord(ks[n], ShardPayload(n))

\* The index file NewManager finds: none, or the one saved before any
\* record was written.
RebuildIdxFiles == {NoFile, GobSave("map[string][]int64", EmptyMap)}

\* unit is the bucket: the keys of the records written, the number of bytes
\* the crash cut off the last one, the files, and the index NewManager
\* builds.
InitRebuild ==
    /\ InitManager
    /\ \E ks \in RebuildRecords, idx \in RebuildIdxFiles :
           \E cut \in 0..(Len(ShardRecord(ks[Len(ks)], ShardPayload(Len(ks)))) - 1) :
               unit = [called |-> FALSE, keys |-> ks, cut |-> cut,
                       file |-> SubSeq(RecordBytes(ks, Len(ks)), 1,
                                       Len(RecordBytes(ks, Len(ks))) - cut),
                       idxFile |-> idx, rebuilt |-> FALSE, Index |-> EmptyMap]

\* NewManager for the bucket: loadIndex, and rebuildIndex and saveIndex when
\* it fails.
RebuildOpen ==
    /\ ~unit.called
    /\ unit' = [unit EXCEPT
                    !.called = TRUE,
                    !.rebuilt = GobLoad("map[string][]int64", unit.idxFile).err # "",
                    !.Index = NewManagerIndex(unit.file, unit.idxFile),
                    !.idxFile = NewManagerIdxFile(unit.file, unit.idxFile)]
    /\ idleManager

NextRebuild == RebuildOpen

SpecRebuild == InitRebuild /\ [][NextRebuild]_vars

\* ------------------------------------------------------------------------

\* The inverted index under Add and SearchPartial
\* ------------------------------------------------------------------------

\* The keywords of the blocks: "ab", "abc", "bcd", "Abcd".
PartialKeywords == {<<97, 98>>, <<97, 98, 99>>, <<98, 99, 100>>, <<65, 98, 99, 100>>}

\* The keyword lists of the blocks: one keyword or two.
PartialKeywordLists ==
    {<<a>> : a \in PartialKeywords} \cup {<<a, b>> : a, b \in PartialKeywords}

\* The substring lists of the searches: "a", "d", "ab", "bc", "abc", "BCD",
\* "abcd", and the lists ("ab", "cd") and ("abc", "bcd").
PartialQueries ==
    {<<(<<97>>)>>, <<(<<100>>)>>, <<(<<97, 98>>)>>, <<(<<98, 99>>)>>,
     <<(<<97, 98, 99>>)>>, <<(<<66, 67, 68>>)>>, <<(<<97, 98, 99, 100>>)>>,
     << <<97, 98>>, <<99, 100>> >>, << <<97, 98, 99>>, <<98, 99, 100>> >>}

\* The blocks indexed.
MaxPartialAdds == 2

InitPartial ==
    /\ InitManager
    /\ unit = [called |-> FALSE, index |-> EmptyMap, blocks |-> << >>,
               substrings |-> << >>, out |-> NilBitSet]

\* ii.Add(keywords, vectorID) for the next vector id.
PartialAdd(keywords) ==
    /\ Len(unit.blocks) < MaxPartialAdds
    /\ unit' = [called |-> FALSE,
                index |-> InvertedIndexAdd(unit.index, keywords,
                                           Len(unit.blocks) + 1, 1),
                blocks |-> Append(unit.blocks, keywords),
                substrings |-> << >>, out |-> NilBitSet]
    /\ idleManager

\* ii.SearchPartial(substrings).
PartialSearch(substrings) ==
    /\ unit' = [unit EXCEPT !.called = TRUE, !.substrings = substrings,
                            !.out = SearchPartial(unit.index, substrings)]
    /\ idleManager

NextPartial ==
    \/ \E keywords \in PartialKeywordLists : PartialAdd(keywords)
    \/ \E substrings \in PartialQueries : PartialSearch(substrings)

SpecPartial == InitPartial /\ [][NextPartial]_vars

\* ------------------------------------------------------------------------

\* A graph large enough for a neighbor list to be pruned
\* ------------------------------------------------------------------------
\* Vector 1 lies at 0; the others are added from the farthest to the
\* nearest, on both sides of it, so that each new vector has vector 1 among
\* its M nearest and vector 1 gets a reverse edge from every one of them.

\* The vectors added: one more than fill a neighbor list beyond 2M.
PruneVectors == 2 * M + 2

\* The position of the i-th vector added.
PrunePosition(i) ==
    IF i = 1 THEN 0
    ELSE IF i % 2 = 0 THEN M + 1 - ((i - 2) \div 2)
    ELSE 0 - (M + 1 - ((i - 3) \div 2))

InitPrune ==
    /\ InitManager
    /\ unit = [called |-> FALSE, n |-> 0, deleted |-> FALSE, op |-> "", id |-> 0,
               before |-> NewHNSWWrapper(1, "l2"), hw |-> NewHNSWWrapper(1, "l2")]

\* hw.Add of the next vector, at level 0.
PruneAdd ==
    /\ unit.n < PruneVectors
    /\ ~unit.deleted
    /\ unit' = [called |-> TRUE, n |-> unit.n + 1, deleted |-> FALSE, op |-> "add",
                id |-> unit.n + 1, before |-> unit.hw,
                hw |-> HNSWAdd(unit.hw, unit.n + 1, <<PrunePosition(unit.n + 1)>>, 0).hw]
    /\ idleManager

\* hw.Delete of a vector of the graph.
PruneDelete(vectorID) ==
    /\ ~unit.deleted
    /\ Has(unit.hw.nodes, vectorID)
    /\ \E hw \in HNSWDelete(unit.hw, vectorID).hws :
           unit' = [called |-> TRUE, n |-> unit.n, deleted |-> TRUE, op |-> "delete",
                    id |-> vectorID, before |-> unit.hw, hw |-> hw]
    /\ idleManager

NextPrune ==
    \/ PruneAdd
    \/ \E id \in 1..PruneVectors : PruneDelete(id)

SpecPrune == InitPrune /\ [][NextPrune]_vars

\* ------------------------------------------------------------------------

\* The request channel when many connections have sent
\* ------------------------------------------------------------------------
\* The handlers of QueueDepth - 1 other connections have each sent a request
\* and are parked at <-ctx.RespChan; the dispatcher has not run yet. unit
\* keeps the RespChan of every request in the order of the sends and in the
\* order the dispatcher hands them to a goroutine.

\* The request of the i-th of the other connections.
ParkedRequest(i) ==
    [ReqID     |-> "r1",
     Operation |-> "OpGetKeyLength",
     Params    |-> [Collection |-> "A", Key |-> DispatchKey],
     RespChan  |-> <<0, i>>]

ParkedRequests == [i \in 1..(QueueDepth - 1) |-> ParkedRequest(i)]

RespChans(requests) == [i \in 1..Len(requests) |-> requests[i].RespChan]

InitQueue ==
    /\ running = TRUE
    /\ collections = EmptyMap
    /\ Buckets = [b \in BucketIDs |-> EmptyMap]
    /\ walSentType = FALSE
    /\ shardFiles = [b \in BucketIDs |-> << >>]
    /\ idxFiles = [b \in BucketIDs |-> GobSave("map[string][]int64", EmptyMap)]
    /\ collDirs = EmptyMap
    /\ walFile = << >>
    /\ hist = << >>
    /\ life = [closes |-> 0, crashes |-> 0, mark |-> 0]
    /\ snap = NoSnap
    /\ conc = [started |-> 0, call |-> [t \in Tids |-> IdleCall]]
    /\ Requests = ParkedRequests
    /\ handlers = [h \in Hids |-> IdleHandler]
    /\ workers = EmptyMap
    /\ lastSearch = NoSearch
    /\ unit = [called |-> FALSE, sent |-> RespChans(ParkedRequests), handed |-> << >>]

\* The steps of the queue leave the Vector Manager alone.
idleQueue ==
    /\ idleStorage /\ idleConc /\ idleSearch
    /\ UNCHANGED <<life, snap>>

NextQueue ==
    \/ \E h \in Hids, id \in ReqIDs :
           \E r \in {x \in RequestsOf(handlers[h].n + 1) : x.Operation # "OpAppendBlock"} :
               HandlerRead(h, id, r) /\ idleQueue /\ UNCHANGED unit
    \/ \E h \in Hids :
           /\ HandlerSend(h)
           /\ unit' = [unit EXCEPT !.called = TRUE,
                                   !.sent = Append(@, handlers[h].ctx.RespChan)]
           /\ idleQueue
    \/ \E h \in Hids : HandlerWait(h) /\ idleQueue /\ UNCHANGED unit
    \/ /\ Dispatch
       /\ unit' = [unit EXCEPT !.handed = Append(@, Head(Requests).RespChan)]
       /\ idleQueue

SpecQueue == InitQueue /\ [][NextQueue]_vars

\* ------------------------------------------------------------------------

\* The locks of the storage layer and the goroutines that take them
\* ------------------------------------------------------------------------
\* A call is followed through the Lock, RLock, Unlock and RUnlock calls it
\* makes, in the order of the code; which branch it takes (collection found
\* or not, a write that fails, a search without results) is a choice made
\* when the call begins. The BitSet values built during a search are local
\* to the call and their mutexes are left out.

\* The shard files a batch is spread over.
NumLockBuckets == 2

LockBuckets == 1..NumLockBuckets

\* The calls of one behaviour.
MaxLockOps == 2

VmMu == <<"vm.mu", 0>>
CmMu == <<"cm.mu", 0>>
CMu == <<"c.mu", 0>>
DocMapMu == <<"DocMap.mu", 0>>
HNSWMu == <<"HNSWIndex.mu", 0>>
KeywordMu == <<"KeywordIndex.mu", 0>>
WalMu == <<"wal.mu", 0>>
MMu == <<"m.mu", 0>>
WriteLock(b) == <<"WriteLock", b>>
IndexLock(b) == <<"IndexLock", b>>
\* var mu sync.Mutex of the BatchAppend call of goroutine t
ErrsMu(t) == <<"mu", t>>

LockNames ==
    {VmMu, CmMu, CMu, DocMapMu, HNSWMu, KeywordMu, WalMu, MMu}
        \cup {WriteLock(b) : b \in LockBuckets} \cup {IndexLock(b) : b \in LockBuckets}
        \cup {ErrsMu(t) : t \in Tids}

\* The goroutines: <<t, 0>> runs the call of t, <<t, b>> is the goroutine
\* BatchAppend starts for bucket b.
Goroutines == Tids \X (0..NumLockBuckets)

NoGoroutine == <<0, 0>>

\* A sync.RWMutex (a sync.Mutex is one that is never read-locked): w is the
\* goroutine inside Lock(), held says whether its Lock() has returned,
\* readers counts the RLock() calls not yet undone.
FreeLock == [w |-> NoGoroutine, held |-> FALSE, readers |-> [g \in Goroutines |-> 0]]

\* l.Lock(); defer l.Unlock(); body -- or body between Lock and Unlock.
Held(l, body) == <<<<"Lock", l>>>> \o body \o <<<<"Unlock", l>>>>

\* l.RLock(); defer l.RUnlock(); body
Read(l, body) == <<<<"RLock", l>>>> \o body \o <<<<"RUnlock", l>>>>

\* CollectionManager.GetCollection, were it to return with cm.mu read-locked.
LocksGetCollectionKeeps == <<<<"RLock", CmMu>>>>

\* CollectionManager.GetCollection
LocksGetCollection == Read(CmMu, << >>)

\* WAL.log
LocksWalLog == Held(WalMu, << >>)

\* Collection.AppendBlock of a block with a vector and keywords; added is
\* FALSE when HNSWIndex.Add returns an error.
LocksCollAppendBlock(added) ==
    Held(CMu, Held(DocMapMu, << >>) \o Held(HNSWMu, << >>)
              \o (IF added THEN Held(DocMapMu, << >>) \o Held(KeywordMu, << >>)
                  ELSE << >>))

\* Collection.GetBlockVectorID of a key with one block
LocksGetBlockVectorID == Read(CMu, Read(DocMapMu, << >>))

\* Manager.Append into bucket b
LocksManagerAppend(b, outcome) ==
    CASE outcome = "invalid key" -> << >>
      [] outcome = "write failed" -> Held(WriteLock(b), << >>)
      [] OTHER -> Held(WriteLock(b), Held(IndexLock(b), << >>))

StorageOutcomes == {"invalid key", "write failed", "ok"}

\* VectorManager.AppendBlock: the paths to each of its returns.
LocksVMAppendBlock ==
    {LocksGetCollection,
     LocksGetCollection \o LocksWalLog,
     LocksGetCollection \o LocksWalLog \o LocksCollAppendBlock(FALSE)}
        \cup {LocksGetCollection \o LocksWalLog \o LocksCollAppendBlock(TRUE)
                  \o LocksGetBlockVectorID \o LocksManagerAppend(1, o) : o \in StorageOutcomes}

\* One turn of phase 1 of BatchAppendBlocks.
LocksBatchItem(outcome) ==
    CASE outcome = "wal" -> LocksWalLog
      [] outcome = "add" -> LocksWalLog \o LocksCollAppendBlock(FALSE)
      [] OTHER -> LocksWalLog \o LocksCollAppendBlock(TRUE) \o LocksGetBlockVectorID

\* The goroutine of BatchAppend for bucket b.
LocksBatchWorker(t, b, outcome) ==
    CASE outcome = "none" -> << >>
      [] outcome = "seek" ->
             <<<<"Lock", WriteLock(b)>>, <<"Unlock", WriteLock(b)>>>> \o Held(ErrsMu(t), << >>)
      [] outcome = "write" ->
             Held(WriteLock(b), Held(ErrsMu(t), << >>)) \o Held(IndexLock(b), << >>)
      [] OTHER -> Held(WriteLock(b), << >>) \o Held(IndexLock(b), << >>)

\* Collection.Save and Collection.Close
LocksCollSave == Held(CMu, Read(HNSWMu, << >>) \o Read(KeywordMu, << >>) \o Read(DocMapMu, << >>))

\* VectorManager.GetBlock: the paths to each of its returns.
LocksVMGetBlock ==
    {LocksGetCollection,
     LocksGetCollection \o Read(CMu, << >>),
     LocksGetCollection \o Read(CMu, << >>) \o Read(IndexLock(1), << >>),
     LocksGetCollection \o Read(CMu, << >>) \o Read(IndexLock(1), << >>) \o Read(CMu, << >>)}

\* Collection.Search with results found (the number of DocMap.Get calls).
LocksCollSearch(results) ==
    Read(CMu, Read(KeywordMu, << >>) \o Read(HNSWMu, << >>)
              \o (IF results > 0 THEN Read(DocMapMu, << >>) ELSE << >>))

\* RepairManager.CheckConsistency
LocksCheckConsistency ==
    LocksGetCollection \o Read(CMu, Read(DocMapMu, << >>) \o Read(HNSWMu, << >>))

\* Manager.Close
RECURSIVE LocksSaveIndexes(_)
LocksSaveIndexes(b) ==
    IF b > NumLockBuckets THEN << >>
    ELSE Read(IndexLock(b), << >>) \o LocksSaveIndexes(b + 1)

LockOperations ==
    {"append_block", "batch_append_blocks", "delete_key", "get_block", "search",
     "keyword_search", "create_collection", "delete_collection", "check_consistency",
     "repair_orphans", "close"}

\* What happens to the goroutines of BatchAppend: of a batch whose two
\* entries fall into two buckets, and of a batch with one entry.
BatchOutcomes == {<<"ok", "ok">>, <<"seek", "write">>}

EntryOutcomes == {<<"ok", "none">>, <<"seek", "none">>, <<"write", "none">>}

\* The lock calls of the goroutine of a call, one sequence per path.
MainPaths(op) ==
    CASE op = "append_block" -> LocksVMAppendBlock
      [] op = "batch_append_blocks" ->
             {LocksGetCollection,
              LocksGetCollection \o LocksBatchItem("wal"),
              LocksGetCollection \o LocksBatchItem("add")}
      [] op = "delete_key" ->
             {LocksGetCollection,
              LocksGetCollection \o LocksWalLog,
              LocksGetCollection \o LocksWalLog \o Held(CMu, << >>),
              LocksGetCollection \o LocksWalLog
                  \o Held(CMu, Held(HNSWMu, << >>) \o Held(DocMapMu, << >>))}
      [] op = "get_block" -> LocksVMGetBlock
      [] op = "search" ->
             {LocksGetCollection,
              LocksGetCollection \o Read(CMu, Read(KeywordMu, << >>) \o Read(HNSWMu, << >>)),
              LocksGetCollection \o LocksCollSearch(0)}
                 \cup {LocksGetCollection \o LocksCollSearch(1) \o p : p \in LocksVMGetBlock}
      [] op = "keyword_search" ->
             {LocksGetCollection,
              LocksGetCollection \o Read(CMu, Read(KeywordMu, << >>)),
              LocksGetCollection \o Read(CMu, Read(KeywordMu, << >>) \o Read(DocMapMu, << >>))}
      [] op = "create_collection" -> {Held(CmMu, << >>)}
      [] op = "delete_collection" -> {Held(CmMu, << >>), Held(CmMu, LocksCollSave)}
      [] op = "check_consistency" -> {LocksGetCollection, LocksCheckConsistency}
      [] op = "repair_orphans" ->
             {LocksGetCollection,
              LocksCheckConsistency,
              LocksCheckConsistency \o LocksGetCollection,
              LocksCheckConsistency \o LocksGetCollection
                  \o Held(CMu, Held(HNSWMu, << >>) \o Read(HNSWMu, << >>))}
      [] OTHER ->
             {Held(VmMu, Read(CmMu, << >>) \o saves \o LocksWalLog \o LocksWalLog
                             \o Held(CmMu, closes) \o Held(MMu, LocksSaveIndexes(1)))
                  : saves \in {<< >>, LocksGetCollection \o LocksCollSave},
                    closes \in {<< >>, LocksCollSave}}

\* The goroutines BatchAppend starts, one for each bucket with entries.
LocksBatchAppend(t, outcomes) ==
    [b \in LockBuckets |->
        LocksBatchWorker(t, b, IF b \in DOMAIN outcomes THEN outcomes[b] ELSE "none")]

\* BatchAppendBlocks of one item and of two items that are appended: the
\* lock calls of phase 1 and the goroutines of phase 2.
LocksVMBatchAppendBlocks(t) ==
    {[main |-> LocksGetCollection \o LocksBatchItem("ok") \o LocksBatchItem("ok"),
      workers |-> LocksBatchAppend(t, o)] : o \in BatchOutcomes}
        \cup {[main |-> LocksGetCollection \o LocksBatchItem("ok"),
                workers |-> LocksBatchAppend(t, o)] : o \in EntryOutcomes}

\* The calls of goroutine t: the lock calls of its own and the goroutines it
\* starts once these are done.
Calls(t, op) ==
    {[main |-> m, workers |-> LocksBatchAppend(t, <<"none", "none">>)] : m \in MainPaths(op)}
        \cup (IF op = "batch_append_blocks" THEN LocksVMBatchAppendBlocks(t) ELSE {})

\* The lock calls still to be made by goroutine g.
Todo(g) ==
    LET call == conc.call[g[1]]
    IN IF call.pc = "idle" THEN << >>
       ELSE IF g[2] = 0 THEN call.main
       ELSE IF call.main = << >> THEN call.workers[g[2]]
       ELSE << >>

\* No RLock() of l is outstanding.
NoReaders(l) == \A g \in Goroutines : l.readers[g] = 0

\* Whether the lock call at the head of g's list returns now.
CanStep(g) ==
    /\ Todo(g) # << >>
    /\ LET kind == Todo(g)[1][1]
           l == unit.locks[Todo(g)[1][2]]
       IN CASE kind = "Lock" ->
                   \/ l.w = NoGoroutine
                   \/ l.w = g /\ ~l.held /\ NoReaders(l)
            [] kind = "RLock" -> l.w = NoGoroutine
            [] OTHER -> TRUE

\* The lock table after that call; a Lock() that finds readers stays at
\* the head of the list with the writer announced.
Stepped(g) ==
    LET kind == Todo(g)[1][1]
        name == Todo(g)[1][2]
        l == unit.locks[name]
    IN CASE kind = "Lock" ->
                [unit.locks EXCEPT ![name] =
                    [l EXCEPT !.w = g, !.held = (NoReaders(l))]]
         [] kind = "Unlock" ->
                [unit.locks EXCEPT ![name] = [l EXCEPT !.w = NoGoroutine, !.held = FALSE]]
         [] kind = "RLock" ->
                [unit.locks EXCEPT ![name].readers[g] = @ + 1]
         [] OTHER ->
                [unit.locks EXCEPT ![name].readers[g] = @ - 1]

\* The lock calls leave the data alone.
idleLocks ==
    UNCHANGED <<running, collections, Buckets, walSentType, shardFiles, idxFiles,
                collDirs, walFile, hist, life, snap, Requests, handlers, workers,
                lastSearch>>

InitLocks ==
    /\ InitManager
    /\ unit = [called |-> FALSE, locks |-> [l \in LockNames |-> FreeLock]]

\* A goroutine begins a call.
LockBegin(t, op) ==
    /\ conc.call[t].pc = "idle"
    /\ conc.started < MaxLockOps
    /\ \E call \in Calls(t, op) :
           conc' = [conc EXCEPT !.started = @ + 1,
                                !.call[t] = [pc |-> "run", op |-> op, main |-> call.main,
                                             workers |-> call.workers]]
    /\ UNCHANGED unit
    /\ idleLocks

\* A goroutine gets through its next lock call.
LockStep(g) ==
    /\ CanStep(g)
    /\ unit' = [unit EXCEPT !.called = TRUE, !.locks = Stepped(g)]
    /\ LET done == Stepped(g)[Todo(g)[1][2]].w # g \/ Stepped(g)[Todo(g)[1][2]].held
           rest == IF Todo(g)[1][1] = "Lock" /\ ~done THEN Todo(g) ELSE Tail(Todo(g))
       IN conc' = IF g[2] = 0 THEN [conc EXCEPT !.call[g[1]].main = rest]
                  ELSE [conc EXCEPT !.call[g[1]].workers[g[2]] = rest]
    /\ idleLocks

\* The call returns: wg.Wait() has seen every goroutine finish.
LockReturn(t) ==
    /\ conc.call[t].pc = "run"
    /\ conc.call[t].main = << >>
    /\ \A b \in LockBuckets : conc.call[t].workers[b] = << >>
    /\ conc' = [conc EXCEPT !.call[t] = IdleCall]
    /\ UNCHANGED unit
    /\ idleLocks

NextLocks ==
    \/ \E t \in Tids, op \in LockOperations : LockBegin(t, op)
    \/ \E g \in Goroutines : LockStep(g)
    \/ \E t \in Tids : LockReturn(t)

\* The Go scheduler does not stop while some goroutine can run.
FairLocks ==
    WF_vars((\E g \in Goroutines : LockStep(g)) \/ (\E t \in Tids : LockReturn(t)))

SpecLocks == InitLocks /\ [][NextLocks]_vars /\ FairLocks

\* ------------------------------------------------------------------------

\* What the claims speak of, read off hist and the state
\* ------------------------------------------------------------------------

\* The positions in hist of the successful appends to (c, k), in call order.
AppendsAt(c, k) ==
    SelectSeq([i \in 1..Len(hist) |-> i],
              LAMBDA i : /\ hist[i].op = "append"
                         /\ hist[i].collection = c
                         /\ hist[i].key = k
                         /\ hist[i].err = "")

\* The positions in hist of the successful deletes of (c, k).
DeletesAt(c, k) ==
    {i \in 1..Len(hist) : /\ hist[i].op = "delete"
                          /\ hist[i].collection = c
                          /\ hist[i].key = k
                          /\ hist[i].err = ""}

\* C1: for a key of a collection that was only appended to (never deleted),
\* the n-th successful append_block call (n = 0, 1, ...) returned index n,
\* get_key_length is the number of those calls, and get_block(key, n)
\* returns the primary bytes passed to the n-th call.
C1_AppendSequence ==
    \A c \in CollNames, k \in Keys :
        DeletesAt(c, k) = {} =>
            LET apps == AppendsAt(c, k) IN
            \A n \in 1..Len(apps) :
                /\ hist[apps[n]].index = n - 1
                /\ VMGetKeyLength(St, c, k) = [err |-> "", length |-> Len(apps)]
                /\ VMGetBlock(St, c, k, n - 1).err = ""
                /\ VMGetBlock(St, c, k, n - 1).block.Primary = hist[apps[n]].block.Primary

\* The successful appends to (c, k) made after its last successful delete.
AppendsSinceDelete(c, k) ==
    LET last == CHOOSE d \in DeletesAt(c, k) : \A e \in DeletesAt(c, k) : e <= d
    IN  SelectSeq(AppendsAt(c, k), LAMBDA i : i > last)

\* C2: once delete_key(c, k) has succeeded, get_block(c, k, i) returns the
\* primary bytes of the i-th block appended after the deletion, and fails
\* for every i at or beyond the current key length (0 when the key is gone).
C2_DeletedBlocksUnreachable ==
    \A c \in CollNames, k \in Keys :
        DeletesAt(c, k) # {} =>
            LET apps == AppendsSinceDelete(c, k) IN
            \A i \in Indexes :
                IF i < Len(apps)
                THEN /\ VMGetBlock(St, c, k, i).err = ""
                     /\ VMGetBlock(St, c, k, i).block.Primary =
                            hist[apps[i + 1]].block.Primary
                ELSE i >= VMGetKeyLength(St, c, k).length
                         => VMGetBlock(St, c, k, i).err # ""

\* The primary bytes of the blocks appended to (c, k).
PrimariesOf(c, k) == {hist[i].block.Primary : i \in Range(AppendsAt(c, k))}

\* C3: for two collections A # B and one key string k, get_block(A, k, i)
\* returns a block that was appended to (A, k), never one that was appended
\* to (B, k).
C3_CollectionsIsolated ==
    \A a \in CollNames, b \in CollNames, k \in Keys, i \in Indexes :
        (a # b /\ VMGetBlock(St, a, k, i).err = "") =>
            /\ VMGetBlock(St, a, k, i).block.Primary \in PrimariesOf(a, k)
            /\ VMGetBlock(St, a, k, i).block.Primary \notin PrimariesOf(b, k)

\* C4: in one collection the vector id given to a newly appended block is
\* greater than every id given to a block of that collection before, also
\* to blocks deleted since.
C4_VectorIDsNeverReused ==
    \A i, j \in 1..Len(hist) :
        (/\ i < j
         /\ hist[i].op = "append" /\ hist[i].err = ""
         /\ hist[j].op = "append" /\ hist[j].err = ""
         /\ hist[i].collection = hist[j].collection)
            => hist[i].vectorID < hist[j].vectorID

\* C5: when every call since the last checkpoint succeeded and the process
\* then crashed and was reopened one or more times, get_key_length and
\* get_block have, for every key and index, the values they had just before
\* the first crash.
C5_RecoveryReproducesState ==
    (running /\ snap.set /\ snap.ok) => Obs(St) = snap.obs

\* C6: when the only calls were successful appends of blocks with vectors
\* and the process was closed and reopened (never crashed), get_key_length
\* is the number of blocks appended to the key and get_block(key, i) returns
\* the primary bytes and the vector of the i-th of them.
C6_CloseReopenRoundTrip ==
    (/\ running
     /\ life.closes > 0
     /\ life.crashes = 0
     /\ \A i \in 1..Len(hist) :
            hist[i].op = "append" /\ hist[i].err = "" /\ Len(hist[i].block.Vector) > 0)
        => \A c \in CollNames, k \in Keys :
               LET apps == AppendsAt(c, k) IN
               \A n \in 1..Len(apps) :
                   /\ VMGetKeyLength(St, c, k) = [err |-> "", length |-> Len(apps)]
                   /\ VMGetBlock(St, c, k, n - 1).err = ""
                   /\ VMGetBlock(St, c, k, n - 1).block.Primary =
                          hist[apps[n]].block.Primary
                   /\ VMGetBlock(St, c, k, n - 1).block.Vector =
                          hist[apps[n]].block.Vector

\* Every goroutine is outside AppendBlock.
Quiescent == \A t \in Tids : conc.call[t].pc = "idle"

\* C7: when concurrent append_block calls on one key have all returned, the
\* call that was given block index i is the call whose primary bytes
\* get_block(key, i) returns.
C7_ConcurrentAppendOrder ==
    Quiescent =>
        \A k \in Keys :
            \A n \in Range(AppendsAt(ConcCollection, k)) :
                /\ VMGetBlock(St, ConcCollection, k, hist[n].index).err = ""
                /\ VMGetBlock(St, ConcCollection, k, hist[n].index).block.Primary =
                       hist[n].block.Primary


\* Nothing is left that could answer the request of handler h: it is not on
\* the queue and no goroutine of Manager.handle holds it.
Abandoned(h) ==
    /\ handlers[h].pc \in {"sent", "waiting"}
    /\ \A i \in 1..Len(Requests) : Requests[i].RespChan # handlers[h].ctx.RespChan
    /\ ~Has(workers, handlers[h].ctx.RespChan)

\* C8: every request a connection handler has put on the dispatch queue and
\* waits for is answered with one response that carries the request's own
\* request_id: no handler is left waiting for a request that nothing will
\* answer any more, and a response received has the request_id sent.
C8_EveryRequestAnswered ==
    \A h \in Hids :
        /\ ~Abandoned(h)
        /\ handlers[h].pc = "received" => handlers[h].resp.ReqID = handlers[h].ctx.ReqID

\* C9: a search with a filter returns only blocks whose vector id is in the
\* id set computed from the filter, also when that set is empty (the result
\* is then empty).
C9_SearchWithinFilter ==
    (/\ lastSearch.called
     /\ lastSearch.out.err = ""
     /\ ~lastSearch.out.bitset.isNil)
        => \A i \in 1..Len(lastSearch.out.results) :
               lastSearch.out.results[i].VectorID \in lastSearch.out.bitset.bits

\* C10: a search without a filter returns at most top_k results, for every
\* top_k >= 0, ordered by non-decreasing distance to the query.
C10_TopKSorted ==
    (/\ lastSearch.called
     /\ lastSearch.out.err = ""
     /\ lastSearch.out.bitset.isNil)
        => /\ Len(lastSearch.out.results) <= lastSearch.topK
           /\ \A i \in 1..(Len(lastSearch.out.results) - 1) :
                  lastSearch.out.results[i].Distance
                      <= lastSearch.out.results[i + 1].Distance

\* C11: search_in_key returns only results of the given key; for a key that
\* holds no blocks or does not exist it returns no result.
C11_SearchInKeyOnlyKey ==
    (/\ lastSearch.called
     /\ lastSearch.out.err = ""
     /\ Len(lastSearch.out.filter.Keys) > 0)
        => \A i \in 1..Len(lastSearch.out.results) :
               lastSearch.out.results[i].Key = lastSearch.out.filter.Keys[1]

\* The positions in hist of the blocks (c, k) holds now: its successful
\* appends since its last successful delete.
CurrentAppends(c, k) ==
    SelectSeq(AppendsAt(c, k), LAMBDA i : \A d \in DeletesAt(c, k) : d < i)

\* The block appended at position i of hist carries every keyword of kws.
Carries(i, kws) ==
    \A j \in 1..Len(kws) :
        ToLower(kws[j]) \in {ToLower(w) : w \in Range(hist[i].block.Keywords)}

\* C12: after any sequence of append_block and delete_key, keyword_search
\* returns a key only if a block the key holds now carries the keywords, and
\* a search with a keyword filter returns (key, index) only if the block now
\* at that index of the key carries them: stale postings are filtered out.
C12_StalePostingsFiltered ==
    /\ (lastSearch.called /\ "keys" \in DOMAIN lastSearch /\ lastSearch.err = "")
           => \A n \in 1..Len(lastSearch.keys) :
                  \E i \in Range(CurrentAppends(SearchCollection, lastSearch.keys[n])) :
                      Carries(i, lastSearch.keywords)
    /\ (lastSearch.called /\ "out" \in DOMAIN lastSearch /\ lastSearch.out.err = ""
            /\ Len(lastSearch.out.filter.Keywords) > 0)
           => \A n \in 1..Len(lastSearch.out.results) :
                  LET r    == lastSearch.out.results[n]
                      apps == CurrentAppends(SearchCollection, r.Key)
                  IN  /\ r.Index < Len(apps)
                      /\ Carries(apps[r.Index + 1], lastSearch.out.filter.Keywords)

\* C13: after batch_append_blocks, every item answered with success is read
\* back by get_block at the index it was given, with its primary bytes, and
\* get_key_length and get_block answer for every key and index as they would
\* had append_block been called for the items one by one in batch order.
C13_BatchEqualsSequence ==
    (snap.set /\ snap.err = "") =>
        /\ \A i \in 1..Len(snap.keys) :
               snap.successes[i] =>
                   /\ VMGetBlock(St, BatchCollection, snap.keys[i], snap.indexes[i]).err = ""
                   /\ VMGetBlock(St, BatchCollection, snap.keys[i],
                                 snap.indexes[i]).block.Primary = snap.blocks[i].Primary
        /\ Obs(St) = snap.obs

\* The last successful call on (c, k) was a delete_key.
Deleted(c, k) == DeletesAt(c, k) # {} /\ Len(CurrentAppends(c, k)) = 0

\* C14: after a successful delete_key and until the key is appended to
\* again, contains_key answers false, list_keys does not list the key, and
\* no search, search in a key or keyword search returns the key.
C14_DeletedKeyGone ==
    \A k \in Keys :
        Deleted(SearchCollection, k) =>
            /\ VMContainsKey(St, SearchCollection, k) = [err |-> "", exists |-> FALSE]
            /\ \A r \in VMListKeys(St, SearchCollection) : k \notin Range(r.keys)
            /\ (lastSearch.called /\ "out" \in DOMAIN lastSearch)
                   => \A n \in 1..Len(lastSearch.out.results) :
                          lastSearch.out.results[n].Key # k
            /\ (lastSearch.called /\ "keys" \in DOMAIN lastSearch)
                   => k \notin Range(lastSearch.keys)

\* A key was deleted and a search made afterwards returned a block.
C14_Witness ==
    /\ \E k \in Keys : Deleted(SearchCollection, k)
    /\ lastSearch.called
    /\ "out" \in DOMAIN lastSearch
    /\ Len(lastSearch.out.results) > 0

\* The forward index and the key table of the client's collection in colls.
StepDocMap(colls) ==
    IF Has(colls, ConcCollection) THEN colls[ConcCollection].DocMap ELSE EmptyMap

StepKeys(colls) ==
    IF Has(colls, ConcCollection) THEN DOMAIN colls[ConcCollection].KeyLengths ELSE {}

\* The WAL's entries, and whether the last of them is of type op for key.
Logged == walEntries(walFile, Len(walFile))

LastLogged(op, key) ==
    /\ Len(Logged) > 0
    /\ Logged[Len(Logged)].OpType = op
    /\ Logged[Len(Logged)].Collection = ConcCollection
    /\ Logged[Len(Logged)].Key = key

\* The entry of the n-th record the shard log has for key under the given
\* files and indexes.
StepRecord(files, indexes, key, n) ==
    DecodeEntry(ManagerGet(files[getBucketID(key)], indexes[getBucketID(key)],
                           key, n - 1).bytes).entry

\* A step that adds or changes a forward-index entry finds the WAL ending
\* with the add record of the entry's key.
WalBeforeCollection ==
    \A id \in DOMAIN StepDocMap(collections') :
        (\/ id \notin DOMAIN StepDocMap(collections)
         \/ StepDocMap(collections)[id] # StepDocMap(collections')[id])
            => LastLogged(WALOpAdd, StepDocMap(collections')[id].Key)

\* A step that writes a shard-log record finds the record's vector id in the
\* forward index under the record's key, and an add record of the key with
\* the record's primary bytes in the WAL.
CollectionBeforeShard ==
    \A k \in Keys :
        Has(Buckets'[getBucketID(k)], k) =>
            \A n \in 1..Len(Buckets'[getBucketID(k)][k]) :
                (\/ ~Has(Buckets[getBucketID(k)], k)
                 \/ n > Len(Buckets[getBucketID(k)][k]))
                    => /\ Has(StepDocMap(collections),
                              BytesToVectorID(StepRecord(shardFiles', Buckets', k, n)
                                                  .SecondaryData).id)
                       /\ StepDocMap(collections)[
                              BytesToVectorID(StepRecord(shardFiles', Buckets', k, n)
                                                  .SecondaryData).id].Key = k
                       /\ \E i \in 1..Len(Logged) :
                              /\ Logged[i].OpType = WALOpAdd
                              /\ Logged[i].Key = k
                              /\ Logged[i].Data =
                                     StepRecord(shardFiles', Buckets', k, n).PrimaryData

\* A step that takes a key out of the key table finds the WAL ending with
\* the delete record of the key.
WalBeforeDelete ==
    \A k \in StepKeys(collections) \ StepKeys(collections') :
        LastLogged(WALOpDelete, k)

\* C15: within every append, single or item of a batch, the WAL record is
\* written before the collection is changed in memory and that before the
\* shard-log record is written; within delete_key the WAL record is written
\* before the key is deleted from the collection.
C15_WalFirst ==
    [][WalBeforeCollection /\ CollectionBeforeShard /\ WalBeforeDelete]_vars

\* An append, a batch of two items and a delete have gone through all their
\* steps.
C15_Witness ==
    /\ conc.call[StepThread].pc = "idle"
    /\ \E i, j \in 1..Len(hist) :
           /\ hist[i].op = "batch" /\ hist[i].err = ""
           /\ Len(hist[i].key) = 2 /\ hist[i].index # << >>
           /\ hist[j].op = "delete" /\ hist[j].err = ""

\* The positions in hist of the blocks collection c holds now that were
\* appended with a vector.
CurrentVectors(c) ==
    {i \in 1..Len(hist) :
        /\ Len(hist[i].block.Vector) > 0
        /\ \E k \in Keys : i \in Range(CurrentAppends(c, k))}

C17_GraphIdsInForwardIndex ==
    \A c \in DOMAIN collections :
        \A id \in DOMAIN collections[c].HNSWIndex.nodes :
            /\ Has(collections[c].DocMap, id)
            /\ collections[c].DocMap[id].Key \in Keys
            /\ collections[c].DocMap[id].Index \in Nat

\* A block with a vector was appended, a key deleted and the orphans
\* repaired, and a graph still holds a node.
C17_Witness ==
    /\ \E i, j, k \in 1..Len(hist) :
           /\ hist[i].op = "append" /\ hist[i].err = "" /\ Len(hist[i].block.Vector) > 0
           /\ hist[j].op = "delete" /\ hist[j].err = ""
           /\ hist[k].op = "repair" /\ hist[k].err = ""
    /\ \E c \in DOMAIN collections : HNSWCount(collections[c].HNSWIndex) > 0

\* The vector ids whose forward-index entry in collection c is (key, i).
EntriesOf(c, key, i) ==
    {id \in DOMAIN c.DocMap : c.DocMap[id] = [Key |-> key, Index |-> i]}

\* C18: for every key of the key table and every block index i below the
\* key's length there is exactly one forward-index entry with the value
\* (key, i), and it is the entry of the vector id at position i of the key's
\* id list.
C18_KeyTablePointsBack ==
    \A c \in DOMAIN collections :
        \A key \in DOMAIN collections[c].KeyLengths :
            \A i \in 0..(collections[c].KeyLengths[key] - 1) :
                /\ Cardinality(EntriesOf(collections[c], key, i)) = 1
                /\ Has(collections[c].KeyIndex, key)
                /\ i < Len(collections[c].KeyIndex[key])
                /\ collections[c].KeyIndex[key][i + 1]
                       \in EntriesOf(collections[c], key, i)

\* C18, amended: for every key of the key table and every block index i
\* below the key's length there is exactly one forward-index entry with the
\* value (key, i); its vector id occurs once in the key's id list, at some
\* position, and is the id GetBlockVectorID(key, i) finds.
C18_KeyTableHasEntry ==
    \A c \in DOMAIN collections :
        \A key \in DOMAIN collections[c].KeyLengths :
            \A i \in 0..(collections[c].KeyLengths[key] - 1) :
                /\ Cardinality(EntriesOf(collections[c], key, i)) = 1
                /\ Has(collections[c].KeyIndex, key)
                /\ \A id \in EntriesOf(collections[c], key, i) :
                       /\ Cardinality({p \in 1..Len(collections[c].KeyIndex[key]) :
                                          collections[c].KeyIndex[key][p] = id}) = 1
                       /\ GetBlockVectorID(collections[c], key, i) = [err |-> "", id |-> id]

\* A collection that was loaded from its files holds a key with two blocks.
C18_Witness ==
    /\ running
    /\ life.closes > 0
    /\ \E c \in DOMAIN collections :
           \E key \in DOMAIN collections[c].KeyLengths :
               collections[c].KeyLengths[key] >= 2

\* The positions in hist of the CreateCollection calls on c that succeeded.
CreatesAt(c) ==
    {i \in 1..Len(hist) : hist[i].op = "create" /\ hist[i].collection = c /\ hist[i].err = ""}

\* Every collection has the dimensions and the metric of the last
\* CreateCollection call on its name that succeeded.
ConfigKept ==
    \A c \in DOMAIN collections :
        /\ CreatesAt(c) # {}
        /\ \E i \in CreatesAt(c) :
               /\ \A j \in CreatesAt(c) : j <= i
               /\ collections[c].Config = [Name |-> c, Dimensions |-> hist[i].dimensions,
                                           Metric |-> hist[i].metric]
               /\ collections[c].HNSWIndex.dimensions = hist[i].dimensions
               /\ collections[c].HNSWIndex.metric = hist[i].metric

\* A CreateCollection call on the name of an existing collection is answered
\* with the already-exists error and changes neither the collection nor a
\* file.
CreateRefused ==
    (/\ Len(hist') = Len(hist) + 1
     /\ hist'[Len(hist')].op = "create"
     /\ Has(collections, hist'[Len(hist')].collection))
        => /\ hist'[Len(hist')].err = "collection already exists"
           /\ UNCHANGED <<collections, collDirs, shardFiles, walFile>>

\* C19: the dimensions and the metric of a collection never change between
\* its CreateCollection and its DeleteCollection, and a CreateCollection on
\* an existing name fails with the already-exists error and leaves the
\* dimensions, the metric and the contents as they were.
C19_ConfigFixed == []ConfigKept /\ [][CreateRefused]_vars

\* A collection that holds a block was asked to be created again with other
\* dimensions, and the call was refused.
C19_Witness ==
    \E i, j, k \in 1..Len(hist) :
        /\ i < j /\ j < k
        /\ hist[i].op = "create" /\ hist[i].err = ""
        /\ hist[j].op = "append" /\ hist[j].err = ""
        /\ hist[k].op = "create" /\ hist[k].err = "collection already exists"
        /\ hist[k].dimensions # hist[i].dimensions
        /\ \A d \in (i + 1)..k : hist[d].op # "delete collection"

\* The responses that say the operation is not implemented.
NotImplemented(resp, reqID) ==
    /\ resp.ReqID = reqID
    /\ ~resp.Success
    /\ resp.Error \in {"not implemented", "operation not implemented"}

\* The step in which Manager.handle runs a request for one of these
\* operations fills the response with the failure and changes no
\* collection, WAL, shard log or other file.
StubHandled ==
    \A w \in ChanIds :
        (/\ Has(workers, w) /\ workers[w].pc = "handle"
         /\ workers[w].req.Operation \in StubOperations
         /\ Has(workers', w) /\ workers'[w].pc = "select")
            => /\ NotImplemented(workers'[w].resp, workers[w].req.ReqID)
               /\ UNCHANGED <<collections, Buckets, shardFiles, idxFiles, collDirs, walFile>>

\* The response a handler receives for such a request is that failure.
StubReceived ==
    \A h \in Hids :
        (/\ handlers[h].pc = "waiting" /\ handlers'[h].pc = "received"
         /\ handlers[h].ctx.Operation \in StubOperations)
            => NotImplemented(handlers'[h].resp, handlers[h].ctx.ReqID)

Normalized(entry) ==
    [entry EXCEPT !.Keywords = [i \in 1..Len(entry.Keywords) |-> ToLower(entry.Keywords[i])]]

C22_ChangedByteDetected ==
    (unit.pc = "decoded" /\ unit.changed) => unit.err = "CRC mismatch"

\* A byte of the primary data of an encoded entry has been changed and the
\* bytes have been decoded.
C22_Witness ==
    /\ unit.pc = "decoded"
    /\ unit.changed
    /\ \E pos \in 1..Len(unit.bytes) :
           /\ pos > Len(unit.bytes) - Len(unit.entry.SecondaryData) - Len(unit.entry.PrimaryData)
           /\ pos <= Len(unit.bytes) - Len(unit.entry.SecondaryData)
           /\ unit.bytes[pos] # EncodeEntry(unit.entry).bytes[pos]

\* C23: Add with a vector of another length than the graph's dimension
\* fails with the dimension mismatch, Add of an ID in the graph fails with
\* "already exists", Delete of an ID not in the graph fails with "not
\* found", and each of them leaves the nodes, their neighbor lists, the
\* entry point and the max level as they were.
C23_GraphRejects ==
    unit.called =>
        /\ (unit.op = "add" /\ Len(unit.vector) # unit.before.dimensions)
               => unit.err = "dimension mismatch"
        /\ (unit.op = "add" /\ Len(unit.vector) = unit.before.dimensions
                /\ Has(unit.before.nodes, unit.id))
               => unit.err = "already exists"
        /\ (unit.op = "delete" /\ ~Has(unit.before.nodes, unit.id))
               => unit.err = "not found"
        /\ unit.err # "" => unit.hw = unit.before

\* A graph of two linked nodes has refused a call.
C23_Witness ==
    /\ unit.called
    /\ unit.err # ""
    /\ Cardinality(DOMAIN unit.before.nodes) = 2
    /\ \E n \in DOMAIN unit.before.nodes : unit.before.nodes[n].Neighbors[1] # << >>

\* No key of the collection has been deleted.
NoDelete(c) == \A k \in Keys : DeletesAt(c, k) = {}

\* The vector IDs of the blocks of c that carry every keyword of kws.
ExactIDs(c, kws) ==
    {hist[i].vectorID : i \in {j \in 1..Len(hist) :
        /\ hist[j].op = "append" /\ hist[j].collection = c /\ hist[j].err = ""
        /\ Carries(j, kws)}}

\* The keys of c that hold a block carrying every keyword of kws.
ExactKeys(c, kws) ==
    {k \in Keys : \E i \in Range(AppendsAt(c, k)) : Carries(i, kws)}

\* The ID set of a filtered search is the set of the matching blocks' IDs.
ExactBitset ==
    (/\ lastSearch.called /\ "out" \in DOMAIN lastSearch /\ lastSearch.out.err = ""
     /\ Len(lastSearch.out.filter.Keywords) > 0 /\ Len(lastSearch.out.filter.Keys) = 0)
        => /\ ~lastSearch.out.bitset.isNil
           /\ lastSearch.out.bitset.bits
                  = ExactIDs(SearchCollection, lastSearch.out.filter.Keywords)

\* A filtered search returns matching blocks only.
ExactResults ==
    (/\ lastSearch.called /\ "out" \in DOMAIN lastSearch /\ lastSearch.out.err = ""
     /\ Len(lastSearch.out.filter.Keywords) > 0 /\ Len(lastSearch.out.filter.Keys) = 0)
        => \A n \in 1..Len(lastSearch.out.results) :
               lastSearch.out.results[n].VectorID
                   \in ExactIDs(SearchCollection, lastSearch.out.filter.Keywords)

\* keyword_search returns the keys that own a matching block.
ExactKeywordSearch ==
    (/\ lastSearch.called /\ "keys" \in DOMAIN lastSearch /\ lastSearch.err = ""
     /\ Len(lastSearch.keywords) > 0)
        => Range(lastSearch.keys) = ExactKeys(SearchCollection, lastSearch.keywords)

\* C24: in a collection where no key has been deleted, the ID set of a query
\* in exact mode is the set of the vector IDs of the blocks that carry every
\* query keyword (compared without case), a filtered search returns such
\* blocks only, and keyword_search returns exactly the keys that own one.
C24_ExactIsIntersection ==
    NoDelete(SearchCollection) => ExactBitset /\ ExactResults /\ ExactKeywordSearch

\* The call just made is op.
Called(op) == Len(hist) > 0 /\ hist[Len(hist)].op = op

\* C25: when append_block returns an error, get_key_length, contains_key,
\* list_keys, count and the search results of the collection are what they
\* were before the call.
C25_FailedAppendChangesNothing ==
    (Called("append") /\ hist[Len(hist)].err # "")
        => ReadBack(St, FaultCollection) = snap.before

\* The last call, its I/O errors, and the state before it.
LastCall == hist[Len(hist)]

\* The items of the batch just made that have key k and were logged.
LoggedItems(k) ==
    {i \in 1..Len(LastCall.key) :
        /\ LastCall.key[i] = k
        /\ (i \in DOMAIN LastCall.io.wal => LastCall.io.wal[i] = "ok")}

KeyLength(colls, k) ==
    IF Has(colls[FaultCollection].KeyLengths, k)
    THEN colls[FaultCollection].KeyLengths[k] ELSE 0

Offsets(buckets, k) ==
    IF Has(buckets[getBucketID(k)], k) THEN Len(buckets[getBucketID(k)][k]) ELSE 0

\* An AppendBlock or DeleteKey whose WAL.log call fails returns an error and
\* leaves the collections, the shard files and their indexes as they were.
WalFailureStops ==
    (/\ Len(hist) > 0
     /\ LastCall.op \in {"append", "delete"}
     /\ LastCall.io.wal # << >>)
        => /\ LastCall.err # ""
           /\ collections = snap.st.collections
           /\ shardFiles = snap.st.shardFiles
           /\ Buckets = snap.st.Buckets

\* In a batch, an item whose WAL.log call fails has success flag false, and
\* each key has grown by no more than its logged items, in the collection
\* and in the shard index.
WalFailureSkipsItem ==
    (Len(hist) > 0 /\ LastCall.op = "batch")
        => /\ \A i \in 1..Len(LastCall.key) :
                  LastCall.io.wal[i] # "ok" => ~LastCall.successes[i]
           /\ \A k \in FaultBatchKeys :
                  /\ KeyLength(collections, k)
                         = KeyLength(snap.st.collections, k) + Cardinality(LoggedItems(k))
                  /\ Offsets(Buckets, k)
                         <= Offsets(snap.st.Buckets, k) + Cardinality(LoggedItems(k))

\* C26: when the WAL write or sync fails during append_block or delete_key,
\* the call returns an error and neither the collection in memory nor the
\* shard log has changed; in a batch, an item whose WAL write failed is not
\* applied and its success flag is false.
C26_WalFailureAborts == WalFailureStops /\ WalFailureSkipsItem

\* A batch of two items has been made whose first item was logged and
\* applied and whose second item met a failing file.Sync.
C26_Witness ==
    /\ Len(hist) > 0
    /\ LastCall.op = "batch"
    /\ LastCall.io.wal = <<"ok", "sync">>
    /\ LastCall.successes = <<TRUE, FALSE>>
    /\ KeyLength(collections, LastCall.key[1]) > 0

\* Item i of the batch just made can be read back: get_block at the index
\* the item was given returns its primary bytes.
Durable(i) ==
    /\ VMGetBlock(St, FaultCollection, LastCall.key[i], LastCall.index[i]).err = ""
    /\ VMGetBlock(St, FaultCollection, LastCall.key[i], LastCall.index[i]).block.Primary
           = LastCall.block[i].Primary

\* C30: when a write of a shard file fails during batch_append_blocks, the
\* items that can be read back form a prefix of the batch, and the success
\* vector is true for exactly those items.
C30_BatchFailureLeavesPrefix ==
    (/\ Len(hist) > 0
     /\ LastCall.op = "batch"
     /\ LastCall.io.shard # {})
        => /\ \A i, j \in 1..Len(LastCall.key) : (i < j /\ Durable(j)) => Durable(i)
           /\ \A i \in 1..Len(LastCall.key) : LastCall.successes[i] <=> Durable(i)

\* A replay that goes through every entry in log order and passes over an
\* entry AppendBlock or DeleteKey refuses: the set of states it can leave.
RECURSIVE replayAll(_, _, _, _)
replayAll(st, entries, i, levels) ==
    IF i > Len(entries) THEN {st}
    ELSE IF entries[i].OpType = WALOpAdd
         THEN UNION {replayAll(
                         VMAppendBlock(st, entries[i].Collection, entries[i].Key,
                                       [Primary  |-> entries[i].Data,
                                        Vector   |-> entries[i].Vector,
                                        Keywords |-> entries[i].Keywords], l).st,
                         entries, i + 1, levels) : l \in levels}
         ELSE IF entries[i].OpType = WALOpDelete
         THEN UNION {replayAll(r.st, entries, i + 1, levels) :
                        r \in VMDeleteKey(st, entries[i].Collection, entries[i].Key)}
         ELSE replayAll(st, entries, i + 1, levels)

\* The collections an open can build from the files when every complete
\* record of the WAL is replayed.
ReplayedAll ==
    UNION {{s.collections :
               s \in replayAll([collections |-> colls,
                                Buckets     |-> [b \in BucketIDs |->
                                                    NewManagerIndex(shardFiles[b],
                                                                    idxFiles[b])],
                                walSentType |-> FALSE,
                                shardFiles  |-> shardFiles,
                                walFile     |-> walFile,
                                io          |-> NoFault],
                               walEntries(walFile, Len(walFile)), 1, FlatLevels)} :
              colls \in loadExistingCollections(collDirs)}

\* C27: the replay on open reads every complete record of the WAL and
\* replays them in log order: after the open every record that can be
\* applied has been applied, also when an earlier record could not be.
C27_ReplayAppliesAll == [][(~running /\ running') => collections' \in ReplayedAll]_vars

\* The files of collection name hold what the collection holds in memory:
\* its forward index, its inverted index and the nodes of its graph.
SavedOnDisk(name) ==
    /\ Has(collDirs, name)
    /\ GobLoad("map[uint64]DocLocation", collDirs[name].docmap).value
           = collections[name].DocMap
    /\ GobLoad("map[string][]uint64", collDirs[name].kw).value
           = collections[name].KeywordIndex
    /\ DOMAIN HNSWLoad(NewCollection(collections[name].Config).HNSWIndex,
                       collDirs[name].hnsw).hw.nodes
           = DOMAIN collections[name].HNSWIndex.nodes

\* C28: Checkpoint truncates the WAL only when every collection's state in
\* memory has been saved: at the step that removes records from the WAL,
\* whatever appends and deletes ran beside the checkpoint and whether or not
\* a Save failed, the files of every collection hold the state the removed
\* records led to.
C28_CheckpointAfterFlush ==
    [][(/\ conc.call[StepThread].pc = "checkpoint"
        /\ Len(walFile) > 0
        /\ walFile' = << >>)
           => \A name \in DOMAIN collections : SavedOnDisk(name)]_vars

\* Goroutine g is inside Lock() or holds l, or has read-locked it.
Holds(g, l) == unit.locks[l].w = g \/ unit.locks[l].readers[g] > 0

\* C29: concurrently running operations never wait for each other's locks
\* forever. A goroutine whose call has returned holds no lock, whichever
\* return it took; as long as a call is under way some goroutine can go on;
\* and every call that was begun returns.
C29_LocksReleasedCallsComplete ==
    /\ [](\A t \in Tids : conc.call[t].pc = "idle"
              => \A l \in LockNames, b \in 0..NumLockBuckets : ~Holds(<<t, b>>, l))
    /\ []((\E t \in Tids : conc.call[t].pc = "run")
              => \/ \E g \in Goroutines : CanStep(g)
                 \/ \E t \in Tids : ENABLED LockReturn(t))
    /\ \A t \in Tids : (conc.call[t].pc = "run") ~> (conc.call[t].pc = "idle")

\* Two calls have met at a lock: a goroutine waits in Lock() or RLock() for
\* a lock that a goroutine of the other call holds.
C29_Witness ==
    /\ \E g \in Goroutines :
           /\ Todo(g) # << >>
           /\ ~CanStep(g)
           /\ \E h \in Goroutines : h[1] # g[1] /\ Holds(h, Todo(g)[1][2])

\* The requests the channel holds are those sent and not yet handed over,
\* in the order of the sends.
QueueIsFIFO == unit.handed \o RespChans(Requests) = unit.sent

\* No request was sent twice or handed to two goroutines.
QueueExactlyOnce ==
    /\ \A i, j \in 1..Len(unit.sent) : unit.sent[i] = unit.sent[j] => i = j
    /\ DOMAIN workers = Range(unit.handed)

\* C31: the dispatch queue is a bounded FIFO of depth 100. It never holds
\* more than 100 requests; a handler that offers a request while it is full
\* stays at its send until the dispatcher has removed one; and the
\* dispatcher hands every request to exactly one goroutine, in the order of
\* the sends, without losing one or handing one over twice.
C31_BoundedFIFO ==
    /\ [](Len(Requests) <= 100)
    /\ [](QueueIsFIFO /\ QueueExactlyOnce)
    /\ [][\A h \in Hids :
              (handlers[h].pc = "built" /\ Len(Requests) = 100)
                  => handlers'[h].pc = "built"]_vars
    /\ [][Len(Requests') < Len(Requests)
              => /\ Has(workers', Head(Requests).RespChan)
                 /\ workers'[Head(Requests).RespChan].req = Head(Requests)
                 /\ Requests' = Tail(Requests)]_vars

\* The queue is full again after the dispatcher has removed a request: one
\* request more than the queue holds has been sent, and the first one has
\* been handed to a goroutine.
C31_Witness ==
    /\ Len(Requests) = 100
    /\ Len(unit.handed) > 0
    /\ Len(unit.sent) = 100 + Len(unit.handed)
    /\ \A h \in Hids : handlers[h].pc \in {"sent", "waiting"}

\* The call that created the collection as it is now: the last create of
\* the behaviour that succeeded, when no delete of the collection has
\* succeeded since; 0 when the collection does not exist.
Created ==
    LET creates == {i \in 1..Len(hist) : hist[i].op = "create" /\ hist[i].err = ""}
        deletes == {i \in 1..Len(hist) :
                        hist[i].op = "delete collection" /\ hist[i].err = ""}
        last == CHOOSE c \in creates : \A d \in creates : d <= c
    IN IF creates = {} \/ \E d \in deletes : d > last THEN 0 ELSE last

\* The appends to key since the collection was created that returned
\* success.
AppendsSince(key) ==
    {i \in (Created + 1)..Len(hist) :
         hist[i].op = "append" /\ hist[i].key = key /\ hist[i].err = ""}

\* C32: a collection exists from CreateCollection until DeleteCollection.
\* While it does not exist the operations naming it answer not-found; once
\* created again it starts empty: without an append since, list_keys is
\* empty and count is 0, and the first block appended to a key since gets
\* index 0 and is the block get_block(key, 0) returns.
C32_RecreatedStartsEmpty ==
    /\ (Created = 0) = ~Has(collections, LifecycleCollection)
    /\ Created = 0 =>
           /\ \A k \in Keys :
                  /\ VMGetBlock(St, LifecycleCollection, k, 0).err = "collection not found"
                  /\ VMGetKeyLength(St, LifecycleCollection, k).err = "collection not found"
                  /\ VMContainsKey(St, LifecycleCollection, k).err = "collection not found"
           /\ \A r \in VMListKeys(St, LifecycleCollection) : r.err = "collection not found"
    /\ Created > 0 =>
           /\ (\A k \in Keys : AppendsSince(k) = {}) =>
                  /\ \A r \in VMListKeys(St, LifecycleCollection) : r.keys = << >>
                  /\ CollCount(collections[LifecycleCollection]) = 0
                  /\ CollCountEntries(collections[LifecycleCollection]) = 0
           /\ \A k \in Keys : \A i \in AppendsSince(k) :
                  (\A j \in AppendsSince(k) : i <= j) =>
                      /\ hist[i].index = 0
                      /\ VMGetBlock(St, LifecycleCollection, k, 0).err = ""
                      /\ VMGetBlock(St, LifecycleCollection, k, 0).block.Primary
                             = hist[i].block.Primary

\* C33: a create-collection request handled by the dispatcher succeeds only
\* if its name is not empty, its dimensions are above 0 and its metric
\* string is one of "l2", "cosine", "ip"; the collection it creates has the
\* metric the request names; a request with another metric string fails
\* and creates nothing.
C33_CreateValidatesMetric ==
    [][\A w \in ChanIds :
           (/\ Has(workers, w) /\ workers[w].pc = "handle"
            /\ workers[w].req.Operation = "OpCreateCollection"
            /\ Has(workers', w) /\ workers'[w].pc = "select")
               => LET p == workers[w].req.Params
                  IN /\ workers'[w].resp.Success
                            => /\ p.Name # "" /\ p.Dimensions > 0
                               /\ p.Metric \in {"l2", "cosine", "ip"}
                               /\ Has(collections', p.Name)
                               /\ collections'[p.Name].Config.Metric = p.Metric
                     /\ p.Metric \notin {"l2", "cosine", "ip"}
                            => /\ ~workers'[w].resp.Success
                               /\ collections' = collections]_vars

\* The offsets of sequence s grow from each entry to the next.
Increasing(s) == \A i, j \in 1..Len(s) : i < j => s[i] < s[j]

\* C34: under every interleaving of Append and BatchAppend calls on one
\* shard, the offset list the index holds for a key is strictly increasing,
\* and once the calls have returned it is the list a rebuild of the index
\* from the shard file produces.
C34_OffsetsInFileOrder ==
    /\ \A k \in DOMAIN Buckets[ShardBucket] : Increasing(Buckets[ShardBucket][k])
    /\ (\A t \in Tids : conc.call[t].pc = "idle")
           => Buckets[ShardBucket] = rebuildIndex(shardFiles[ShardBucket], EmptyMap, 0)

\* The index of the complete records among ks[1..n] of the bucket: every
\* record but a last one that was cut short, each at its start offset.
RECURSIVE CompleteIndex(_, _, _)
CompleteIndex(ks, n, complete) ==
    IF n = 0 THEN EmptyMap
    ELSE IF n > complete THEN CompleteIndex(ks, n - 1, complete)
    ELSE IndexAppend(CompleteIndex(ks, n - 1, complete), ks[n],
                     Len(RecordBytes(ks, n - 1)))

\* C35: when the index file of a shard cannot be loaded, the index rebuilt
\* from the log holds for every key exactly the start offsets of the key's
\* complete records in file order; a last record whose payload is cut short
\* is not in it.
C35_RebuildIndexesCompleteRecords ==
    (unit.called /\ unit.rebuilt)
        => unit.Index = CompleteIndex(unit.keys, Len(unit.keys),
                                      IF unit.cut = 0 THEN Len(unit.keys)
                                      ELSE Len(unit.keys) - 1)

\* Every id in a neighbor list of graph hw is the id of a node of hw.
NoDanglingEdge(hw) ==
    \A n \in DOMAIN hw.nodes : \A l \in 1..Len(hw.nodes[n].Neighbors) :
        Range(hw.nodes[n].Neighbors[l]) \subseteq DOMAIN hw.nodes

\* C36: after any sequence of HNSW adds and deletes, every id in a neighbor
\* list at any level is the id of a node of the graph: no edge to a deleted
\* node remains.
C36_NoEdgeToDeletedNode == unit.called => NoDanglingEdge(unit.hw)

\* kept is a set of M of the ids held, none farther from node n of graph hw
\* than an id of held that is left out.
NearestOf(hw, n, held, kept) ==
    /\ kept \subseteq held
    /\ Cardinality(kept) = M
    /\ \A a \in kept : \A b \in held \ kept :
           distance(hw, hw.nodes[n].Vector, hw.nodes[a].Vector)
               <= distance(hw, hw.nodes[n].Vector, hw.nodes[b].Vector)

\* C38: when the reverse edge of an Add makes a node's neighbor list at a
\* level longer than 2M, the list is pruned to the M entries nearest to the
\* node among those it held before pruning.
C38_PruneKeepsNearest ==
    (unit.called /\ unit.op = "add") =>
        \A n \in DOMAIN unit.before.nodes :
            \A l \in 1..Len(unit.before.nodes[n].Neighbors) :
                (/\ Len(unit.before.nodes[n].Neighbors[l]) = 2 * M
                 /\ l <= Len(unit.hw.nodes[unit.id].Neighbors)
                 /\ n \in Range(unit.hw.nodes[unit.id].Neighbors[l])
                 /\ unit.id \notin Range(unit.before.nodes[n].Neighbors[l]))
                => NearestOf(unit.hw, n,
                             Range(unit.before.nodes[n].Neighbors[l]) \cup {unit.id},
                             Range(unit.hw.nodes[n].Neighbors[l]))

\* The positions in hist of the blocks collection c holds now.
CurrentBlocks(c) == UNION {Range(CurrentAppends(c, k)) : k \in Keys}

\* Result line r stands for the block appended at position i of hist.
IsBlock(r, i) == r.Key = hist[i].key /\ r.Index = hist[i].index

\* C37: in a collection that never held more than M vectors, a search
\* without a filter returns exactly the min(k, n) nearest of the n blocks
\* the collection holds now, each with its distance to the query: no other
\* block is nearer than a block returned.
C37_SmallSearchExact ==
    (/\ lastSearch.called
     /\ "out" \in DOMAIN lastSearch
     /\ lastSearch.out.err = ""
     /\ lastSearch.out.filter.Keywords = << >>
     /\ lastSearch.out.filter.Keys = << >>
     /\ Has(collections, SearchCollection))
        => LET cur == CurrentBlocks(SearchCollection)
               rs  == lastSearch.out.results
               hw  == collections[SearchCollection].HNSWIndex
           IN  /\ Len(rs) = Min2(lastSearch.topK, Cardinality(cur))
               /\ \A j \in 1..Len(rs) :
                      \E i \in cur :
                          /\ IsBlock(rs[j], i)
                          /\ rs[j].Distance =
                                 distance(hw, lastSearch.query, hist[i].block.Vector)
               /\ \A j1, j2 \in 1..Len(rs) :
                      (rs[j1].Key = rs[j2].Key /\ rs[j1].Index = rs[j2].Index) => j1 = j2
               /\ \A i \in cur :
                      (\A j \in 1..Len(rs) : ~IsBlock(rs[j], i))
                      => \A j \in 1..Len(rs) :
                             rs[j].Distance
                                 <= distance(hw, lastSearch.query, hist[i].block.Vector)

\* Keyword kw contains substring s, both taken in lower case.
ContainsFold(kw, s) ==
    \E i \in 1..(Len(kw) - Len(s) + 1) :
        SubSeq(ToLower(kw), i, i + Len(s) - 1) = ToLower(s)

\* C39: a keyword search in partial mode returns exactly the vector ids of
\* the blocks that have, for every substring of the query, a keyword that
\* contains it without regard to case, whatever the length of the substring.
C39_PartialIsSubstringMatch ==
    unit.called =>
        unit.out.bits =
            {id \in 1..Len(unit.blocks) :
                \A j \in 1..Len(unit.substrings) :
                    \E kw \in Range(unit.blocks[id]) :
                        ContainsFold(kw, unit.substrings[j])}

\* The entry point of graph hw: hasEntry is set exactly when hw has a node,
\* and then entryPoint is a node of hw at level MaxLevel, the highest level
\* of a node of hw.
EntryPointIsTop(hw) ==
    /\ hw.hasEntry <=> DOMAIN hw.nodes # {}
    /\ hw.hasEntry =>
           /\ Has(hw.nodes, hw.entryPoint)
           /\ hw.MaxLevel = hw.nodes[hw.entryPoint].Level
           /\ \A n \in DOMAIN hw.nodes : hw.nodes[n].Level <= hw.MaxLevel

\* C40: in every state of the HNSW graph, after every Add and every Delete,
\* the has-entry flag is set exactly when the graph has a node, and the
\* entry point is then a node of the graph whose level is MaxLevel, the
\* highest level in the graph; also after the entry point or the last node
\* was deleted.
C40_EntryPointIsTop == EntryPointIsTop(unit.hw)

\* The entry point, at level 1, was deleted and a node of level 0 took its
\* place.
C40_Witness ==
    /\ unit.called
    /\ unit.op = "delete"
    /\ unit.err = ""
    /\ unit.before.entryPoint = unit.id
    /\ unit.before.MaxLevel = 1
    /\ unit.hw.hasEntry
    /\ unit.hw.MaxLevel = 0

====
